---- MODULE Spec2Model ----
(***************************************************************************)
(* Gameplay core of the neon rhythm game (src/main.py, class RhythmGame):  *)
(* falling notes, miss resolution, lane-key hits, combo and score.         *)
(*                                                                         *)
(* Units.  clock.tick(FPS) returns whole milliseconds and run() passes     *)
(* dt = ms / 1000.0 to update(); here dt is kept in milliseconds.  A note  *)
(* position y is in pixels.  update_notes moves an Active note by          *)
(* note_speed * dt * 60 = 0.15 pixel per millisecond for the default       *)
(* note_speed 2.5; every dt of DtSet is a multiple of 20 ms, so that every *)
(* position is a whole number of pixels and the arithmetic below is exact. *)
(*                                                                         *)
(* One tick of RhythmGame.update is the sequence of steps                  *)
(*   spawn -> update_notes -> handle_input (lanes 0..3) -> prune           *)
(* and pc / lane_i hold the position inside update and inside the for loop *)
(* of handle_input.  Particles, the background and drawing do not touch    *)
(* the gameplay state and are left out.                                    *)
(*                                                                         *)
(* PerformanceMonitor (quality level from a rolling buffer of frame        *)
(* durations) shares no state with the gameplay: only drawing reads its    *)
(* quality level.  It is explored on its own in SpecMonitor, with frame    *)
(* durations and the wall clock of time.time() in milliseconds.            *)
(*                                                                         *)
(* ChartGenerator is a separate object too.  remove_duplicate_notes is     *)
(* applied to bounded note lists in SpecDedup and the while loop of        *)
(* generate_chart is explored in SpecGenerate; chart times are in          *)
(* milliseconds (the code has seconds as floats).                          *)
(***************************************************************************)
EXTENDS Integers, Sequences, FiniteSets, TLC

VARIABLES
    notes,             \* self.notes: the list of Note objects, in spawn order
    score,             \* self.score
    combo,             \* self.combo
    combo_multiplier,  \* self.combo_multiplier
    pc,                \* the call update() makes next: "spawn", "update_notes", "input"
    lane_i,            \* index i of the for loop of handle_input
    nextId,            \* identity of the next Note object created
    budget,            \* spawns the model still explores
    elapsed,           \* total dt applied so far (single-note advance runs only)
    hit_now,           \* ids the latest hit_note_in_lane call of this tick set to hit
    missed_now,        \* ids the update_notes call of this tick set to missed
    pruned_now,        \* the notes the prune of the tick that just ended removed
    frame_times,       \* PerformanceMonitor.frame_times, durations in ms
    quality_level,     \* PerformanceMonitor.quality_level
    last_adjustment,   \* PerformanceMonitor.last_adjustment, in ms of wall clock
    wall_clock,        \* what time.time() returned last, in ms
    raised,            \* the latest PerformanceMonitor.update raised ZeroDivisionError
    appended,          \* every duration appended to frame_times so far, in order
    transitions,       \* the quality changes so far, in order
    updates,           \* calls of PerformanceMonitor.update so far
    chart_input,       \* the list remove_duplicate_notes was called with, as passed
    chart_notes,       \* the list "notes" of generate_chart / remove_duplicate_notes
    filtered_notes,    \* the list remove_duplicate_notes (generate_chart) returned
    min_gap,           \* the argument min_gap, in ms
    difficulty,        \* the argument difficulty of generate_chart
    chart_time,        \* current_time of the while loop of generate_chart, in ms
    iterations,        \* iterations of the while loop explored so far
    analysis,          \* the argument analysis of generate_chart
    chart_raised,      \* the exception generate_chart raised, "none" if none
    config_input,      \* the dict validate_config was called with, as passed
    config,            \* the same dict object, which validate_config changes in place
    config_returned,   \* the dict validate_config returned
    twin,              \* a second session, given the same dt and key states
    ticks,             \* calls of RhythmGame.update so far
    run_pc,            \* the statement main() / RhythmGame.run() executes next
    running,           \* self.running
    background_mode,   \* self.background_renderer.mode
    audio_available,   \* the platform can initialise an audio backend
    display,           \* what the platform's display can do: "ok", "no_modes"
                       \* (no display mode listed), "no_window" (no window can
                       \* be opened), "none" (no display system)
    audio_initialized, \* self.audio_initialized
    cleanups,          \* calls of self.cleanup() so far
    run_result,        \* what run() returned: "none", "True" or "False"
    exit_code,         \* what main() returned: "none", "0" or "1"; "no main"
                       \* when run() is called without main()
    stop_tick,         \* the iteration that handled QUIT or ESCAPE, 0 if none
    tick_raised,       \* an exception left the while loop of run()
    keys_now,          \* the lanes whose key was down in the latest update()
    max_step,          \* the largest note_speed (pixels) of the update() calls so far
    hittable,          \* ids of the notes that were Active and within tolerance
                       \* of the hit line when some handle_input call started
    awards,            \* executions of "self.score = max(1, self.score + points)"
    hit_total,         \* notes turned from not hit to hit so far
    lane_weights,      \* lane_weights of the latest choose_lane_musically call
    chosen_lane        \* the lane that call returned, -1 before any call

gameVars == <<notes, score, combo, combo_multiplier, pc, lane_i, nextId, budget,
              elapsed, hit_now, missed_now, pruned_now>>

monitorVars == <<frame_times, quality_level, last_adjustment, wall_clock, raised,
                 appended, transitions, updates>>

chartVars == <<chart_input, chart_notes, filtered_notes, min_gap, difficulty,
               chart_time, iterations, analysis, chart_raised>>

configVars == <<config_input, config, config_returned>>

runVars == <<ticks, run_pc, running, background_mode, audio_available,
             display, audio_initialized, cleanups, run_result, exit_code,
             stop_tick, tick_raised>>

playVars == <<keys_now, max_step, hittable, awards, hit_total>>

laneVars == <<lane_weights, chosen_lane>>

vars == <<notes, score, combo, combo_multiplier, pc, lane_i, nextId, budget,
          elapsed, hit_now, missed_now, pruned_now,
          frame_times, quality_level, last_adjustment, wall_clock, raised,
          appended, transitions, updates,
          chart_input, chart_notes, filtered_notes, min_gap, difficulty,
          chart_time, iterations, analysis, chart_raised,
          config_input, config, config_returned, twin,
          ticks, run_pc, running, background_mode, audio_available,
          display, audio_initialized, cleanups, run_result, exit_code,
          stop_tick, tick_raised,
          keys_now, max_step, hittable, awards, hit_total,
          lane_weights, chosen_lane>>

----------------------------------------------------------------------------
(* Program constants *)

WINDOW_HEIGHT == 800
NUM_LANES == 4
\* NOTE_SPEED = 2.5, in tenths
NOTE_SPEED_TENTHS == 25
HIT_ZONE_Y == WINDOW_HEIGHT - 100
HIT_TOLERANCE == 50

Lanes == 0 .. (NUM_LANES - 1)

(* Bounds of the model *)

\* notes spawned during the explored part of a session
MaxSpawn == 2
\* total milliseconds applied in a single-note advance run
MaxElapsed == 9000
\* frame durations in ms: a stalled clock, a half second, a 1.5 s hitch
DtSet == {0, 500, 1500}
\* combo reached (by consecutive hits) before the explored part of a session
StartCombos == {0, 9, 19, 29}
\* the dt that brings a fresh note to y = 675 in one tick
WarmupDt == 4500

----------------------------------------------------------------------------
(* Pure parts of the code *)

Abs(x) == IF x < 0 THEN -x ELSE x

Max(a, b) == IF a >= b THEN a ELSE b

MinOf(S) == CHOOSE x \in S : \A z \in S : x <= z

MaxOf(S) == CHOOSE x \in S : \A z \in S : x >= z

\* Note(lane=lane, y=0); hits and misses count the times "note.hit = True"
\* and "note.missed = True" were executed for this object
NewNote(id, lane) ==
    [id |-> id, lane |-> lane, y |-> 0, hit |-> FALSE, missed |-> FALSE,
     hits |-> 0, misses |-> 0]

\* RhythmGame.__init__, the game state
NewGame ==
    [notes |-> << >>, score |-> 1, combo |-> 0, combo_multiplier |-> 1]

\* spawn_note with the lane random.randint returned
SpawnNote(g, id, lane) ==
    [g EXCEPT !.notes = Append(g.notes, NewNote(id, lane))]

\* note_speed = settings["note_speed"] * dt * 60, dt = ms / 1000
NoteSpeed(ms) == (NOTE_SPEED_TENTHS * ms * 60) \div 10000

\* "not note.hit and not note.missed"
Active(n) == ~n.hit /\ ~n.missed

\* update_notes with the test "not note.missed" left out: a Missed note keeps
\* moving and its miss branch runs again
UpdateNote_NoMissedGuard(g, ms, i) ==
    LET n == g.notes[i]
        y2 == n.y + NoteSpeed(ms)
    IN  IF ~n.hit
        THEN IF y2 > HIT_ZONE_Y + HIT_TOLERANCE
             THEN [g EXCEPT !.notes[i].y = y2,
                            !.notes[i].missed = TRUE,
                            !.notes[i].misses = @ + 1,
                            !.combo = 0,
                            !.combo_multiplier = 1]
             ELSE [g EXCEPT !.notes[i].y = y2]
        ELSE g

\* update_notes with the test "not note.hit" left out: a Hit note keeps moving
\* and is marked missed once past the hit window
UpdateNote_NoHitGuard(g, ms, i) ==
    LET n == g.notes[i]
        y2 == n.y + NoteSpeed(ms)
    IN  IF ~n.missed
        THEN IF y2 > HIT_ZONE_Y + HIT_TOLERANCE
             THEN [g EXCEPT !.notes[i].y = y2,
                            !.notes[i].missed = TRUE,
                            !.notes[i].misses = @ + 1,
                            !.combo = 0,
                            !.combo_multiplier = 1]
             ELSE [g EXCEPT !.notes[i].y = y2]
        ELSE g

\* update_notes whose miss branch resets the combo and leaves the multiplier
UpdateNote_StaleMultiplier(g, ms, i) ==
    LET n == g.notes[i]
        y2 == n.y + NoteSpeed(ms)
    IN  IF Active(n)
        THEN IF y2 > HIT_ZONE_Y + HIT_TOLERANCE
             THEN [g EXCEPT !.notes[i].y = y2,
                            !.notes[i].missed = TRUE,
                            !.notes[i].misses = @ + 1,
                            !.combo = 0]
             ELSE [g EXCEPT !.notes[i].y = y2]
        ELSE g

\* update_notes whose miss branch takes one off the combo instead of
\* resetting it
UpdateNote_ComboDecrement(g, ms, i) ==
    LET n == g.notes[i]
        y2 == n.y + NoteSpeed(ms)
        c == IF g.combo > 0 THEN g.combo - 1 ELSE 0
    IN  IF Active(n)
        THEN IF y2 > HIT_ZONE_Y + HIT_TOLERANCE
             THEN [g EXCEPT !.notes[i].y = y2,
                            !.notes[i].missed = TRUE,
                            !.notes[i].misses = @ + 1,
                            !.combo = c,
                            !.combo_multiplier = IF c >= 30 THEN 4 ELSE IF c >= 20 THEN 3
                                                 ELSE IF c >= 10 THEN 2 ELSE 1]
             ELSE [g EXCEPT !.notes[i].y = y2]
        ELSE g

\* update_notes whose miss branch also takes 50 points off the score
UpdateNote_MissPenalty(g, ms, i) ==
    LET n == g.notes[i]
        y2 == n.y + NoteSpeed(ms)
    IN  IF Active(n)
        THEN IF y2 > HIT_ZONE_Y + HIT_TOLERANCE
             THEN [g EXCEPT !.notes[i].y = y2,
                            !.notes[i].missed = TRUE,
                            !.notes[i].misses = @ + 1,
                            !.combo = 0,
                            !.combo_multiplier = 1,
                            !.score = IF g.score - 50 >= 1 THEN g.score - 50 ELSE 1]
             ELSE [g EXCEPT !.notes[i].y = y2]
        ELSE g

\* update_notes with the miss test at the near edge of the hit window: a note
\* is missed as soon as it is past HIT_ZONE_Y - HIT_TOLERANCE
UpdateNote_MissAtNearEdge(g, ms, i) ==
    LET n == g.notes[i]
        y2 == n.y + NoteSpeed(ms)
    IN  IF Active(n)
        THEN IF y2 > HIT_ZONE_Y - HIT_TOLERANCE
             THEN [g EXCEPT !.notes[i].y = y2,
                            !.notes[i].missed = TRUE,
                            !.notes[i].misses = @ + 1,
                            !.combo = 0,
                            !.combo_multiplier = 1]
             ELSE [g EXCEPT !.notes[i].y = y2]
        ELSE g

\* the body of the for loop of update_notes, for the note at index i
UpdateNote(g, ms, i) ==
    LET n == g.notes[i]
        y2 == n.y + NoteSpeed(ms)
    IN  IF Active(n)
        THEN IF y2 > HIT_ZONE_Y + HIT_TOLERANCE
             THEN [g EXCEPT !.notes[i].y = y2,
                            !.notes[i].missed = TRUE,
                            !.notes[i].misses = @ + 1,
                            !.combo = 0,
                            !.combo_multiplier = 1]
             ELSE [g EXCEPT !.notes[i].y = y2]
        ELSE g

RECURSIVE UpdateNotesFrom(_, _, _)
UpdateNotesFrom(g, ms, i) ==
    IF i > Len(g.notes) THEN g
    ELSE UpdateNotesFrom(UpdateNote(g, ms, i), ms, i + 1)

\* update_notes(dt)
UpdateNotes(g, ms) == UpdateNotesFrom(g, ms, 1)

\* the condition of hit_note_in_lane without "note.lane == lane"
HitCandidate_AnyLane(n, lane) ==
    /\ ~n.hit
    /\ ~n.missed
    /\ Abs(n.y - HIT_ZONE_Y) <= HIT_TOLERANCE

\* the condition without "not note.hit": a note that was hit is hit again
HitCandidate_HitAgain(n, lane) ==
    /\ n.lane = lane
    /\ ~n.missed
    /\ Abs(n.y - HIT_ZONE_Y) <= HIT_TOLERANCE

\* the condition with twice the tolerance
HitCandidate_TwiceTolerance(n, lane) ==
    /\ n.lane = lane
    /\ ~n.hit
    /\ ~n.missed
    /\ Abs(n.y - HIT_ZONE_Y) <= 2 * HIT_TOLERANCE

\* the condition of the if of hit_note_in_lane
HitCandidate(n, lane) ==
    /\ n.lane = lane
    /\ ~n.hit
    /\ ~n.missed
    /\ Abs(n.y - HIT_ZONE_Y) <= HIT_TOLERANCE

\* a loop that keeps the last candidate instead of stopping at the first
FirstHit_Last(C) == MaxOf(C)

\* the note the for loop of hit_note_in_lane stops at (break): the first
\* candidate in list order
FirstHit(C) == MinOf(C)

\* the if/elif chain of hit_note_in_lane
ComboMultiplier(c) ==
    IF c >= 30 THEN 4
    ELSE IF c >= 20 THEN 3
    ELSE IF c >= 10 THEN 2
    ELSE 1

\* the body of the if with the points subtracted instead of added
ApplyHit_Subtract(g, i) ==
    LET c == g.combo + 1
        m == ComboMultiplier(c)
        points == 100 * m
    IN  [g EXCEPT !.notes[i].hit = TRUE,
                  !.notes[i].hits = @ + 1,
                  !.combo = c,
                  !.combo_multiplier = m,
                  !.score = Max(1, g.score - points)]

\* the body of the if with the combo raised by the multiplier instead of by 1
ApplyHit_ComboByMultiplier(g, i) ==
    LET c == g.combo + g.combo_multiplier
        m == ComboMultiplier(c)
        points == 100 * m
    IN  [g EXCEPT !.notes[i].hit = TRUE,
                  !.notes[i].hits = @ + 1,
                  !.combo = c,
                  !.combo_multiplier = m,
                  !.score = Max(1, g.score + points)]

\* the body of the if with the multiplier taken from the combo before its
\* increment
ApplyHit_StaleMultiplier(g, i) ==
    LET c == g.combo + 1
        m == ComboMultiplier(g.combo)
        points == 100 * m
    IN  [g EXCEPT !.notes[i].hit = TRUE,
                  !.notes[i].hits = @ + 1,
                  !.combo = c,
                  !.combo_multiplier = m,
                  !.score = Max(1, g.score + points)]

\* the body of the if of hit_note_in_lane, for the note at index i
ApplyHit(g, i) ==
    LET c == g.combo + 1
        m == ComboMultiplier(c)
        points == 100 * m
    IN  [g EXCEPT !.notes[i].hit = TRUE,
                  !.notes[i].hits = @ + 1,
                  !.combo = c,
                  !.combo_multiplier = m,
                  !.score = Max(1, g.score + points)]

\* hit_note_in_lane without the break: every candidate of the lane is hit
RECURSIVE ApplyHits(_, _)
ApplyHits(g, C) ==
    IF C = {} THEN g ELSE ApplyHits(ApplyHit(g, MinOf(C)), C \ {MinOf(C)})

HitNoteInLane_NoBreak(g, lane) ==
    ApplyHits(g, {i \in 1 .. Len(g.notes) : HitCandidate(g.notes[i], lane)})

\* hit_note_in_lane with a penalty for a press that matches no note
HitNoteInLane_EmptyPressResets(g, lane) ==
    LET C == {i \in 1 .. Len(g.notes) : HitCandidate(g.notes[i], lane)}
    IN  IF C = {}
        THEN [g EXCEPT !.combo = 0, !.combo_multiplier = 1]
        ELSE ApplyHit(g, FirstHit(C))

\* hit_note_in_lane(lane)
HitNoteInLane(g, lane) ==
    LET C == {i \in 1 .. Len(g.notes) : HitCandidate(g.notes[i], lane)}
    IN  IF C = {} THEN g ELSE ApplyHit(g, FirstHit(C))

\* the filter with "<=" for "<": a note exactly at WINDOW_HEIGHT + 100 stays
Kept_Inclusive(n) == n.y <= WINDOW_HEIGHT + 100

\* "note.y < WINDOW_HEIGHT + 100", the filter at the end of update
Kept(n) == n.y < WINDOW_HEIGHT + 100

\* self.notes = [note for note in self.notes if ...]
Prune(g) == [g EXCEPT !.notes = SelectSeq(g.notes, Kept)]

----------------------------------------------------------------------------
(* PerformanceMonitor *)

\* "if len(self.frame_times) > 60"
FRAME_WINDOW == 60
\* "current_time - self.last_adjustment > 2.0", in ms
ADJUST_INTERVAL == 2000
\* the thresholds of the if/elif chain, in frames per second
FPS_TO_MEDIUM == 45
FPS_TO_LOW == 30
FPS_TO_HIGH == 55
\* test_performance_monitor appends 60 durations of 0.04 s before update
TEST_FRAMES == 60
TEST_FRAME_MS == 40

(* Bounds of the model *)

\* calls of PerformanceMonitor.update explored
MaxUpdates == 5
\* time.time() at construction, in ms (any value above ADJUST_INTERVAL)
StartClock == 5000
\* frame durations in ms: a stalled clock, a very fast frame, a 25 fps frame
MonitorDts == {0, 2, TEST_FRAME_MS}
\* wall-clock time between two calls of update, in ms
ClockSteps == {1000, 2001}

RECURSIVE SumSeq(_)
\* sum(self.frame_times)
SumSeq(s) == IF s = << >> THEN 0 ELSE Head(s) + SumSeq(Tail(s))

\* avg_fps = 1.0 / (sum / len) compared with f, for a sum above 0:
\* 1000 * len / sum < f, the durations being in ms
AvgFpsBelow(ft, f) == Len(ft) * 1000 < f * SumSeq(ft)

AvgFpsAbove(ft, f) == Len(ft) * 1000 > f * SumSeq(ft)

\* PerformanceMonitor.__init__
NewMonitor ==
    [frame_times |-> << >>, quality_level |-> "high", last_adjustment |-> 0,
     raised |-> FALSE]

\* the buffer with pop() for pop(0): the newest duration is dropped
PushFrame_DropNewest(ft, d) ==
    LET a == Append(ft, d)
    IN  IF Len(a) > FRAME_WINDOW THEN SubSeq(a, 1, Len(a) - 1) ELSE a

\* frame_times.append(dt) and, above 60 entries, frame_times.pop(0)
PushFrame(ft, d) ==
    LET a == Append(ft, d)
    IN  IF Len(a) > FRAME_WINDOW THEN Tail(a) ELSE a

\* "self.quality_level = q" and "self.last_adjustment = current_time"
SetQuality(m, q, now) ==
    [m EXCEPT !.quality_level = q, !.last_adjustment = now]

\* the chain written with three ifs: the second test sees the level the first
\* one has just set
Adjust_Fallthrough(m, now) ==
    IF now - m.last_adjustment > ADJUST_INTERVAL
    THEN IF SumSeq(m.frame_times) = 0
         THEN [m EXCEPT !.raised = TRUE]
         ELSE LET m1 == IF AvgFpsBelow(m.frame_times, FPS_TO_MEDIUM)
                           /\ m.quality_level = "high"
                        THEN SetQuality(m, "medium", now) ELSE m
                  m2 == IF AvgFpsBelow(m.frame_times, FPS_TO_LOW)
                           /\ m1.quality_level = "medium"
                        THEN SetQuality(m1, "low", now) ELSE m1
              IN  IF AvgFpsAbove(m.frame_times, FPS_TO_HIGH)
                     /\ m.quality_level = "medium"
                  THEN SetQuality(m2, "high", now) ELSE m2
    ELSE m

\* the chain with the upgrade at the degrade threshold: no hysteresis
Adjust_UpgradeAt45(m, now) ==
    IF now - m.last_adjustment > ADJUST_INTERVAL
    THEN IF SumSeq(m.frame_times) = 0
         THEN [m EXCEPT !.raised = TRUE]
         ELSE IF AvgFpsBelow(m.frame_times, FPS_TO_MEDIUM) /\ m.quality_level = "high"
         THEN SetQuality(m, "medium", now)
         ELSE IF AvgFpsBelow(m.frame_times, FPS_TO_LOW) /\ m.quality_level = "medium"
         THEN SetQuality(m, "low", now)
         ELSE IF AvgFpsAbove(m.frame_times, FPS_TO_MEDIUM) /\ m.quality_level = "medium"
         THEN SetQuality(m, "high", now)
         ELSE m
    ELSE m

\* the chain with a fourth branch, from low back to medium
Adjust_Recover(m, now) ==
    IF now - m.last_adjustment > ADJUST_INTERVAL
    THEN IF SumSeq(m.frame_times) = 0
         THEN [m EXCEPT !.raised = TRUE]
         ELSE IF AvgFpsBelow(m.frame_times, FPS_TO_MEDIUM) /\ m.quality_level = "high"
         THEN SetQuality(m, "medium", now)
         ELSE IF AvgFpsBelow(m.frame_times, FPS_TO_LOW) /\ m.quality_level = "medium"
         THEN SetQuality(m, "low", now)
         ELSE IF AvgFpsAbove(m.frame_times, FPS_TO_HIGH) /\ m.quality_level = "medium"
         THEN SetQuality(m, "high", now)
         ELSE IF AvgFpsAbove(m.frame_times, FPS_TO_HIGH) /\ m.quality_level = "low"
         THEN SetQuality(m, "medium", now)
         ELSE m
    ELSE m

\* the chain without "self.last_adjustment = current_time"
Adjust_KeepsTimestamp(m, now) ==
    IF now - m.last_adjustment > ADJUST_INTERVAL
    THEN IF SumSeq(m.frame_times) = 0
         THEN [m EXCEPT !.raised = TRUE]
         ELSE IF AvgFpsBelow(m.frame_times, FPS_TO_MEDIUM) /\ m.quality_level = "high"
         THEN [m EXCEPT !.quality_level = "medium"]
         ELSE IF AvgFpsBelow(m.frame_times, FPS_TO_LOW) /\ m.quality_level = "medium"
         THEN [m EXCEPT !.quality_level = "low"]
         ELSE IF AvgFpsAbove(m.frame_times, FPS_TO_HIGH) /\ m.quality_level = "medium"
         THEN [m EXCEPT !.quality_level = "high"]
         ELSE m
    ELSE m

\* "Check if we need to adjust quality": the cooldown test, the average (the
\* division raises ZeroDivisionError when every buffered duration is 0) and
\* the if/elif chain
Adjust(m, now) ==
    IF now - m.last_adjustment > ADJUST_INTERVAL
    THEN IF SumSeq(m.frame_times) = 0
         THEN [m EXCEPT !.raised = TRUE]
         ELSE IF AvgFpsBelow(m.frame_times, FPS_TO_MEDIUM) /\ m.quality_level = "high"
         THEN SetQuality(m, "medium", now)
         ELSE IF AvgFpsBelow(m.frame_times, FPS_TO_LOW) /\ m.quality_level = "medium"
         THEN SetQuality(m, "low", now)
         ELSE IF AvgFpsAbove(m.frame_times, FPS_TO_HIGH) /\ m.quality_level = "medium"
         THEN SetQuality(m, "high", now)
         ELSE m
    ELSE m

\* PerformanceMonitor.update(dt), time.time() returning now
MonitorUpdate(m, d, now) ==
    Adjust([m EXCEPT !.frame_times = PushFrame(@, d), !.raised = FALSE], now)

----------------------------------------------------------------------------
(* ChartGenerator *)

\* "min_gap: float = 0.1", in ms
DEFAULT_MIN_GAP == 100
\* get_default_analysis: duration in s, bpm, every energy level (in tenths)
DEFAULT_DURATION == 180
DEFAULT_BPM == 120
DEFAULT_ENERGY_TENTHS == 7
\* duration in s of the short summaries generate_chart is run on
ShortDuration == 1

(* Bounds of the model *)

\* length of the lists remove_duplicate_notes is applied to
MaxDedupNotes == 3
\* notes placed in the explored part of a generate_chart run
MaxGenNotes == 2
\* iterations of the while loop in the explored part of a run
MaxGenIter == 5
\* note times in ms: those of the lists [1.0, 1.05, 2.0] (the repository's
\* test) and [0, 0.12, 0.20]
DedupTimes == {0, 120, 200, 1000, 1050, 2000}
DedupLanes == {0, 1}
\* min_gap in ms: the default and one equal to the gap 0.20 - 0.12
MinGaps == {80, DEFAULT_MIN_GAP}
\* random.random() in hundredths
RandomDraws == {0, 50, 99}
\* random.uniform(0, 0.5) in thousandths: both ends
AdvanceDraws == {0, 500}
\* rand_val = random.uniform(0, total_weight), in quarters of total_weight
LaneDraws == 0 .. 4
Difficulties == {"Easy", "Normal", "Hard", "Expert", "Custom"}

\* the dict of a chart note; "type" is always "normal" and "energy" is not
\* read after it is stored
ChartNote(t, lane) == [time |-> t, lane |-> lane]

\* get_default_analysis()
DefaultAnalysis ==
    [duration |-> DEFAULT_DURATION, bpm |-> DEFAULT_BPM,
     energy_levels |-> [i \in 1 .. DEFAULT_DURATION |-> DEFAULT_ENERGY_TENTHS]]

RECURSIVE InsertByTime(_, _)
\* the sorted list with n put after every note whose time is <= n.time
InsertByTime(sorted, n) ==
    IF sorted = << >> THEN <<n>>
    ELSE IF Head(sorted).time <= n.time
         THEN <<Head(sorted)>> \o InsertByTime(Tail(sorted), n)
         ELSE <<n>> \o sorted

RECURSIVE SortByTime(_)
\* notes.sort(key=lambda n: n["time"]): list.sort is stable
SortByTime(ns) ==
    IF ns = << >> THEN << >>
    ELSE InsertByTime(SortByTime(SubSeq(ns, 1, Len(ns) - 1)), ns[Len(ns)])

\* the gap measured from filtered_notes[0], the first kept note
LastKept_First(kept) == kept[1]

\* filtered_notes[-1]
LastKept(kept) == kept[Len(kept)]

\* the test without "time_gap >= min_gap * 2 or": the lane alone decides
KeepNote_LaneOnly(note, last, g) ==
    LET time_gap == note.time - last.time
    IN  time_gap >= g /\ note.lane # last.lane

\* the two nested ifs of the for loop of remove_duplicate_notes
KeepNote(note, last, g) ==
    LET time_gap == note.time - last.time
    IN  time_gap >= g /\ (time_gap >= g * 2 \/ note.lane # last.lane)

RECURSIVE FilterFrom(_, _, _, _)
\* "for note in notes[1:]", from index i on
FilterFrom(kept, sorted, i, g) ==
    IF i > Len(sorted) THEN kept
    ELSE FilterFrom(IF KeepNote(sorted[i], LastKept(kept), g)
                    THEN Append(kept, sorted[i]) ELSE kept,
                    sorted, i + 1, g)

\* remove_duplicate_notes without "filtered_notes = [notes[0]]": the first
\* note is only the reference of the first gap and is not returned
RemoveDuplicateNotes_FirstDropped(ns, g) ==
    IF Len(ns) <= 1 THEN ns
    ELSE Tail(FilterFrom(<<SortByTime(ns)[1]>>, SortByTime(ns), 2, g))

\* remove_duplicate_notes(notes, min_gap): the list returned
RemoveDuplicateNotes(ns, g) ==
    IF Len(ns) <= 1 THEN ns
    ELSE FilterFrom(<<SortByTime(ns)[1]>>, SortByTime(ns), 2, g)

\* the argument list after the call: sorted in place unless the call returned
\* before the sort
SortedInPlace(ns) == IF Len(ns) <= 1 THEN ns ELSE SortByTime(ns)

\* density_multipliers.get(difficulty, 0.6), in tenths
DensityTenths(d) ==
    CASE d = "Easy" -> 3
      [] d = "Normal" -> 6
      [] d = "Hard" -> 9
      [] d = "Expert" -> 12
      [] OTHER -> 6

\* "60.0 / bpm" raises ZeroDivisionError
BeatRaises(a) == a.bpm = 0

\* beat_interval = 60.0 / bpm, in ms (bpm # 0)
BeatInterval(a) ==
    IF a.bpm < 0 THEN -(60000 \div (-a.bpm)) ELSE 60000 \div a.bpm

\* int(current_time): truncation toward zero, t in ms
IntSeconds(t) == IF t < 0 THEN -((-t) \div 1000) ELSE t \div 1000

\* energy_index = min(int(current_time), len(energy_levels) - 1)
EnergyIndex(a, t) ==
    LET sec == IntSeconds(t)
        last == Len(a.energy_levels) - 1
    IN  IF sec < last THEN sec ELSE last

\* "energy_levels[energy_index]" raises IndexError: a negative index counts
\* from the end of the list and is out of range below -len
EnergyRaises(a, t) == EnergyIndex(a, t) < -Len(a.energy_levels)

\* energy_levels[energy_index] (the index in range)
EnergyAt(a, t) ==
    LET i == EnergyIndex(a, t)
    IN  a.energy_levels[IF i >= 0 THEN i + 1 ELSE Len(a.energy_levels) + i + 1]

\* note_probability = base_density * energy, in hundredths
NoteProbability(a, d, t) == DensityTenths(d) * EnergyAt(a, t)

\* "random.random() < note_probability", r in hundredths
PlaceNote(a, d, t, r) == r < NoteProbability(a, d, t)

\* time_advance without the base 0.5: beat_interval * random.uniform(0, 0.5)
TimeAdvance_NoBase(a, d, u) ==
    LET base == (BeatInterval(a) * u) \div 1000
    IN  IF d = "Expert" THEN (base * 7) \div 10
        ELSE IF d = "Easy" THEN (base * 15) \div 10
        ELSE base

\* time_advance for the draw u = random.uniform(0, 0.5) in thousandths, in ms
TimeAdvance(a, d, u) ==
    LET base == (BeatInterval(a) * (500 + u)) \div 1000
    IN  IF d = "Expert" THEN (base * 7) \div 10
        ELSE IF d = "Easy" THEN (base * 15) \div 10
        ELSE base

\* the loop test with "<=" for "<"
LoopContinues_Inclusive(a, t) == t <= a.duration * 1000

\* "while current_time < duration"
LoopContinues(a, t) == t < a.duration * 1000

RECURSIVE Pow(_, _)
Pow(b, e) == IF e = 0 THEN 1 ELSE b * Pow(b, e - 1)

\* recent_notes: the existing notes less than 2.0 s before current_time
RecentNotes(t, existing) ==
    SelectSeq(existing, LAMBDA n : t - n.time < 2000)

\* recent_lanes: the lanes of recent_notes[-4:]
RecentLanes(t, existing) ==
    LET rn == RecentNotes(t, existing)
        k == IF Len(rn) < 4 THEN Len(rn) ELSE 4
    IN  [j \in 1 .. k |-> rn[Len(rn) - k + j].lane]

\* lane_weights[i] with a recently used lane excluded (factor 0 for 0.3)
LaneWeight_Excluded(i, t, existing) ==
    LET rl == RecentLanes(t, existing)
        c == Cardinality({j \in 1 .. Len(rl) : rl[j] = i})
        w == IF c > 0 THEN 0 ELSE 20000
    IN  IF Len(rl) > 0 /\ (Abs(i - rl[Len(rl)]) = 1 \/ Abs(i - rl[Len(rl)]) = 3)
        THEN (w * 3) \div 2
        ELSE w

\* lane_weights[i] with the 0.3 applied for every recent note, not only for
\* the last four
LaneWeight_AllRecent(i, t, existing) ==
    LET rn == RecentNotes(t, existing)
        rl == RecentLanes(t, existing)
        c == Cardinality({j \in 1 .. Len(rn) : rn[j].lane = i})
        w == (20000 * Pow(3, c)) \div Pow(10, c)
    IN  IF Len(rl) > 0 /\ (Abs(i - rl[Len(rl)]) = 1 \/ Abs(i - rl[Len(rl)]) = 3)
        THEN (w * 3) \div 2
        ELSE w

\* lane_weights[i] in units of 1/20000: 1.0, times 0.3 for every occurrence of
\* i in recent_lanes, times 1.5 when i is at distance 1 or 3 from the lane of
\* the most recent note
LaneWeight(i, t, existing) ==
    LET rl == RecentLanes(t, existing)
        c == Cardinality({j \in 1 .. Len(rl) : rl[j] = i})
        w == (20000 * Pow(3, c)) \div Pow(10, c)
    IN  IF Len(rl) > 0 /\ (Abs(i - rl[Len(rl)]) = 1 \/ Abs(i - rl[Len(rl)]) = 3)
        THEN (w * 3) \div 2
        ELSE w

RECURSIVE Cumulative(_, _, _)
\* "cumulative" after the iteration for lane i
Cumulative(i, t, existing) ==
    IF i < 0 THEN 0
    ELSE Cumulative(i - 1, t, existing) + LaneWeight(i, t, existing)

\* choose_lane_musically(current_time, bpm, existing_notes) for the draw
\* rand_val = k quarters of total_weight (random.randint gives lane k % 4 when
\* total_weight is 0)
ChooseLane(t, existing, k) ==
    LET total == Cumulative(NUM_LANES - 1, t, existing)
        rand_val == (total * k) \div 4
        first == {i \in Lanes : rand_val <= Cumulative(i, t, existing)}
    IN  IF total = 0 THEN k % NUM_LANES
        ELSE IF first # {} THEN MinOf(first)
        ELSE NUM_LANES - 1

\* the loop variable current_time after as many iterations of the longest
\* advance as leave two such advances before the duration, no note placed
NearEnd(a, d) ==
    LET adv == TimeAdvance(a, d, 500)
    IN  adv * (((a.duration * 1000) \div adv) - 2)

----------------------------------------------------------------------------
(* State *)

Game ==
    [notes |-> notes, score |-> score, combo |-> combo,
     combo_multiplier |-> combo_multiplier]

SetGame(g) ==
    /\ notes' = g.notes
    /\ score' = g.score
    /\ combo' = g.combo
    /\ combo_multiplier' = g.combo_multiplier

Monitor ==
    [frame_times |-> frame_times, quality_level |-> quality_level,
     last_adjustment |-> last_adjustment, raised |-> raised]

SetMonitor(m) ==
    /\ frame_times' = m.frame_times
    /\ quality_level' = m.quality_level
    /\ last_adjustment' = m.last_adjustment
    /\ raised' = m.raised

\* self.performance_monitor = PerformanceMonitor(), no update called yet
MonitorConstructed ==
    /\ frame_times = NewMonitor.frame_times
    /\ quality_level = NewMonitor.quality_level
    /\ last_adjustment = NewMonitor.last_adjustment
    /\ raised = NewMonitor.raised
    /\ wall_clock = StartClock
    /\ appended = << >>
    /\ transitions = << >>
    /\ updates = 0

\* no chart generation is under way
NoChart ==
    /\ chart_input = << >>
    /\ chart_notes = << >>
    /\ filtered_notes = << >>
    /\ min_gap = DEFAULT_MIN_GAP
    /\ difficulty = "Normal"
    /\ chart_time = 0
    /\ iterations = 0
    /\ analysis = << >>
    /\ chart_raised = "none"

\* no configuration is being validated
NoConfig ==
    /\ config_input = << >>
    /\ config = << >>
    /\ config_returned = << >>

\* no second session is run
NoTwin == twin = << >>

\* main() has not been called
NoRun ==
    /\ ticks = 0
    /\ run_pc = "idle"
    /\ running = FALSE
    /\ background_mode = "spectrum"
    /\ audio_available = TRUE
    /\ display = "ok"
    /\ audio_initialized = FALSE
    /\ cleanups = 0
    /\ run_result = "none"
    /\ exit_code = "none"
    /\ stop_tick = 0
    /\ tick_raised = FALSE

\* no update() call is being observed
NoPlay ==
    /\ keys_now = {}
    /\ max_step = 0
    /\ hittable = {}
    /\ awards = 0
    /\ hit_total = 0

\* choose_lane_musically has not been called
NoLane ==
    /\ lane_weights = << >>
    /\ chosen_lane = -1

Ids(ns) == {ns[i].id : i \in 1 .. Len(ns)}

NoteOf(ns, id) == ns[CHOOSE i \in 1 .. Len(ns) : ns[i].id = id]

\* ids of the notes a call changed from not hit (not missed) to hit (missed);
\* ns is the list before the call and ms the list after it, of equal length
NewlyHit(ns, ms) ==
    {ns[i].id : i \in {j \in 1 .. Len(ns) : ms[j].hit /\ ~ns[j].hit}}

NewlyMissed(ns, ms) ==
    {ns[i].id : i \in {j \in 1 .. Len(ns) : ms[j].missed /\ ~ns[j].missed}}

\* the notes of the list ns that are no longer in the list ms
Removed(ns, ms) ==
    {ns[i] : i \in {j \in 1 .. Len(ns) : ns[j].id \notin Ids(ms)}}

\* the score after k consecutive hits from construction (score = 1)
RECURSIVE ScoreAfterHits(_)
ScoreAfterHits(k) ==
    IF k = 0 THEN NewGame.score
    ELSE Max(1, ScoreAfterHits(k - 1) + 100 * ComboMultiplier(k))

\* the game after k notes were spawned in lane 0, brought to y = 675 in one
\* tick of WarmupDt and hit, one after the other, from construction: what
\* SpawnNote, UpdateNotes and HitNoteInLane give when applied k times
Warmup(k) ==
    [notes |-> [i \in 1 .. k |->
                  [NewNote(i, 0) EXCEPT !.y = NoteSpeed(WarmupDt), !.hit = TRUE,
                                        !.hits = 1]],
     score |-> ScoreAfterHits(k),
     combo |-> k,
     combo_multiplier |-> ComboMultiplier(k)]

Init ==
    \E k \in StartCombos :
        /\ notes = Warmup(k).notes
        /\ score = Warmup(k).score
        /\ combo = Warmup(k).combo
        /\ combo_multiplier = Warmup(k).combo_multiplier
        /\ nextId = k + 1
        /\ budget = MaxSpawn
        /\ pc = "spawn"
        /\ lane_i = 0
        /\ elapsed = 0
        /\ hit_now = {}
        /\ missed_now = {}
        /\ pruned_now = {}
        /\ MonitorConstructed
        /\ NoChart
        /\ NoConfig
        /\ NoTwin
        /\ NoPlay
        /\ NoLane
        /\ NoRun

----------------------------------------------------------------------------
(* One tick: RhythmGame.update(dt) *)

\* update() is entered; the spawn interval has elapsed on the wall clock
\* (pygame.time.get_ticks) and spawn_note runs
TickSpawn ==
    /\ pc = "spawn"
    /\ budget > 0
    /\ \E lane \in Lanes : SetGame(SpawnNote(Game, nextId, lane))
    /\ nextId' = nextId + 1
    /\ budget' = budget - 1
    /\ pc' = "update_notes"
    /\ pruned_now' = {}
    /\ UNCHANGED <<lane_i, elapsed, hit_now, missed_now>>
    /\ UNCHANGED monitorVars
    /\ UNCHANGED chartVars
    /\ UNCHANGED configVars
    /\ UNCHANGED twin
    /\ UNCHANGED playVars
    /\ UNCHANGED laneVars
    /\ UNCHANGED runVars

\* update() is entered; the spawn interval has not elapsed
TickNoSpawn ==
    /\ pc = "spawn"
    /\ pc' = "update_notes"
    /\ pruned_now' = {}
    /\ UNCHANGED <<notes, score, combo, combo_multiplier, lane_i, nextId, budget, elapsed,
                   hit_now, missed_now>>
    /\ UNCHANGED monitorVars
    /\ UNCHANGED chartVars
    /\ UNCHANGED configVars
    /\ UNCHANGED twin
    /\ UNCHANGED playVars
    /\ UNCHANGED laneVars
    /\ UNCHANGED runVars

\* self.update_notes(dt), for the dt update() was called with
TickUpdateNotes ==
    /\ pc = "update_notes"
    /\ \E d \in DtSet : SetGame(UpdateNotes(Game, d))
    /\ missed_now' = NewlyMissed(notes, notes')
    /\ pc' = "input"
    /\ lane_i' = 0
    /\ UNCHANGED <<nextId, budget, elapsed, hit_now, pruned_now>>
    /\ UNCHANGED monitorVars
    /\ UNCHANGED chartVars
    /\ UNCHANGED configVars
    /\ UNCHANGED twin
    /\ UNCHANGED playVars
    /\ UNCHANGED laneVars
    /\ UNCHANGED runVars

\* handle_input, one iteration of "for i, key in enumerate(lane_keys)" with
\* keys[key] true
TickKeyDown ==
    /\ pc = "input"
    /\ lane_i < NUM_LANES
    /\ SetGame(HitNoteInLane(Game, lane_i))
    /\ hit_now' = NewlyHit(notes, notes')
    /\ lane_i' = lane_i + 1
    /\ UNCHANGED <<pc, nextId, budget, elapsed, missed_now, pruned_now>>
    /\ UNCHANGED monitorVars
    /\ UNCHANGED chartVars
    /\ UNCHANGED configVars
    /\ UNCHANGED twin
    /\ UNCHANGED playVars
    /\ UNCHANGED laneVars
    /\ UNCHANGED runVars

\* the same iteration with keys[key] false
TickKeyUp ==
    /\ pc = "input"
    /\ lane_i < NUM_LANES
    /\ lane_i' = lane_i + 1
    /\ hit_now' = {}
    /\ UNCHANGED <<notes, score, combo, combo_multiplier, pc, nextId, budget,
                   elapsed, missed_now, pruned_now>>
    /\ UNCHANGED monitorVars
    /\ UNCHANGED chartVars
    /\ UNCHANGED configVars
    /\ UNCHANGED twin
    /\ UNCHANGED playVars
    /\ UNCHANGED laneVars
    /\ UNCHANGED runVars

\* handle_input has returned: "Remove old notes", and update returns
TickPrune ==
    /\ pc = "input"
    /\ lane_i = NUM_LANES
    /\ SetGame(Prune(Game))
    /\ pc' = "spawn"
    /\ lane_i' = 0
    /\ hit_now' = {}
    /\ missed_now' = {}
    /\ pruned_now' = Removed(notes, notes')
    /\ UNCHANGED <<nextId, budget, elapsed>>
    /\ UNCHANGED monitorVars
    /\ UNCHANGED chartVars
    /\ UNCHANGED configVars
    /\ UNCHANGED twin
    /\ UNCHANGED playVars
    /\ UNCHANGED laneVars
    /\ UNCHANGED runVars

Next ==
    \/ TickSpawn
    \/ TickNoSpawn
    \/ TickUpdateNotes
    \/ TickKeyDown
    \/ TickKeyUp
    \/ TickPrune

Spec == Init /\ [][Next]_vars

----------------------------------------------------------------------------
(* update_notes applied repeatedly to one note, from its spawn *)

InitAdvance ==
    \E lane \in Lanes :
        /\ notes = SpawnNote(NewGame, 1, lane).notes
        /\ score = NewGame.score
        /\ combo = NewGame.combo
        /\ combo_multiplier = NewGame.combo_multiplier
        /\ nextId = 2
        /\ budget = 0
        /\ pc = "advance"
        /\ lane_i = 0
        /\ elapsed = 0
        /\ hit_now = {}
        /\ missed_now = {}
        /\ pruned_now = {}
        /\ MonitorConstructed
        /\ NoChart
        /\ NoConfig
        /\ NoTwin
        /\ NoPlay
        /\ NoLane
        /\ NoRun

\* one more call update_notes(d)
AdvanceStep ==
    /\ pc = "advance"
    /\ \E d \in DtSet :
          /\ elapsed + d <= MaxElapsed
          /\ SetGame(UpdateNotes(Game, d))
          /\ elapsed' = elapsed + d
    /\ missed_now' = NewlyMissed(notes, notes')
    /\ UNCHANGED <<pc, lane_i, nextId, budget, hit_now, pruned_now>>
    /\ UNCHANGED monitorVars
    /\ UNCHANGED chartVars
    /\ UNCHANGED configVars
    /\ UNCHANGED twin
    /\ UNCHANGED playVars
    /\ UNCHANGED laneVars
    /\ UNCHANGED runVars

NextAdvance == AdvanceStep

SpecAdvance == InitAdvance /\ [][NextAdvance]_vars

----------------------------------------------------------------------------
(* PerformanceMonitor.update called repeatedly, from construction or from the *)
(* buffer test_performance_monitor builds                                    *)

\* the gameplay state of a game object no tick has touched
GameConstructed ==
    /\ notes = NewGame.notes
    /\ score = NewGame.score
    /\ combo = NewGame.combo
    /\ combo_multiplier = NewGame.combo_multiplier
    /\ nextId = 1
    /\ budget = 0
    /\ lane_i = 0
    /\ elapsed = 0
    /\ hit_now = {}
    /\ missed_now = {}
    /\ pruned_now = {}

\* monitor = PerformanceMonitor() followed by the 60 appends of 0.04 of
\* test_performance_monitor
MonitorAfterTestAppends ==
    /\ frame_times = [i \in 1 .. TEST_FRAMES |-> TEST_FRAME_MS]
    /\ quality_level = NewMonitor.quality_level
    /\ last_adjustment = NewMonitor.last_adjustment
    /\ raised = NewMonitor.raised
    /\ wall_clock = StartClock
    /\ appended = [i \in 1 .. TEST_FRAMES |-> TEST_FRAME_MS]
    /\ transitions = << >>
    /\ updates = 0

InitMonitor ==
    /\ GameConstructed
    /\ pc = "monitor"
    /\ (MonitorConstructed \/ MonitorAfterTestAppends)
    /\ NoChart
    /\ NoConfig
    /\ NoTwin
    /\ NoPlay
    /\ NoLane
    /\ NoRun

\* one call update(d), the wall clock having advanced by s since the last call
MonitorUpdateStep ==
    /\ pc = "monitor"
    /\ updates < MaxUpdates
    /\ \E d \in MonitorDts, s \in ClockSteps :
          LET now == wall_clock + s
              m == MonitorUpdate(Monitor, d, now)
          IN  /\ SetMonitor(m)
              /\ wall_clock' = now
              /\ appended' = Append(appended, d)
              /\ transitions' =
                    IF m.quality_level # quality_level
                    THEN Append(transitions,
                                [from |-> quality_level, to |-> m.quality_level,
                                 at |-> now, len |-> Len(m.frame_times),
                                 sum |-> SumSeq(m.frame_times)])
                    ELSE transitions
    /\ updates' = updates + 1
    /\ UNCHANGED gameVars
    /\ UNCHANGED chartVars
    /\ UNCHANGED configVars
    /\ UNCHANGED twin
    /\ UNCHANGED playVars
    /\ UNCHANGED laneVars
    /\ UNCHANGED runVars

NextMonitor == MonitorUpdateStep

SpecMonitor == InitMonitor /\ [][NextMonitor]_vars

----------------------------------------------------------------------------
(* remove_duplicate_notes applied to one list *)

\* the lists of at most MaxDedupNotes notes
DedupInputs ==
    UNION {[1 .. n -> {ChartNote(t, lane) : t \in DedupTimes, lane \in DedupLanes}] :
           n \in 0 .. MaxDedupNotes}

InitDedup ==
    /\ GameConstructed
    /\ MonitorConstructed
    /\ NoConfig
    /\ NoTwin
    /\ NoPlay
    /\ NoLane
    /\ NoRun
    /\ pc = "dedup"
    /\ chart_input \in DedupInputs
    /\ chart_notes = chart_input
    /\ filtered_notes = << >>
    /\ min_gap \in MinGaps
    /\ difficulty = "Normal"
    /\ chart_time = 0
    /\ iterations = 0
    /\ analysis = << >>
    /\ chart_raised = "none"

\* filtered = generator.remove_duplicate_notes(notes, min_gap)
DedupStep ==
    /\ pc = "dedup"
    /\ filtered_notes' = RemoveDuplicateNotes(chart_notes, min_gap)
    /\ chart_notes' = SortedInPlace(chart_notes)
    /\ pc' = "deduped"
    /\ UNCHANGED <<chart_input, min_gap, difficulty, chart_time, iterations, analysis,
                   chart_raised>>
    /\ UNCHANGED <<notes, score, combo, combo_multiplier, lane_i, nextId, budget,
                   elapsed, hit_now, missed_now, pruned_now>>
    /\ UNCHANGED monitorVars
    /\ UNCHANGED configVars
    /\ UNCHANGED twin
    /\ UNCHANGED playVars
    /\ UNCHANGED laneVars
    /\ UNCHANGED runVars

\* again = generator.remove_duplicate_notes(filtered, min_gap): a second call,
\* on the list the first call returned
DedupAgainStep ==
    /\ pc = "deduped"
    /\ chart_input' = filtered_notes
    /\ filtered_notes' = RemoveDuplicateNotes(filtered_notes, min_gap)
    /\ chart_notes' = SortedInPlace(filtered_notes)
    /\ pc' = "deduped_again"
    /\ UNCHANGED <<min_gap, difficulty, chart_time, iterations, analysis,
                   chart_raised>>
    /\ UNCHANGED <<notes, score, combo, combo_multiplier, lane_i, nextId, budget,
                   elapsed, hit_now, missed_now, pruned_now>>
    /\ UNCHANGED monitorVars
    /\ UNCHANGED configVars
    /\ UNCHANGED twin
    /\ UNCHANGED runVars
    /\ UNCHANGED playVars
    /\ UNCHANGED laneVars

NextDedup ==
    \/ DedupStep
    \/ DedupAgainStep

SpecDedup == InitDedup /\ [][NextDedup]_vars

----------------------------------------------------------------------------
(* generate_chart(get_default_analysis(), difficulty) *)

InitGenerate ==
    /\ GameConstructed
    /\ MonitorConstructed
    /\ NoConfig
    /\ NoTwin
    /\ NoPlay
    /\ NoLane
    /\ NoRun
    /\ pc = "generate"
    /\ difficulty \in Difficulties
    /\ chart_time \in {0, NearEnd(DefaultAnalysis, difficulty)}
    /\ chart_input = << >>
    /\ chart_notes = << >>
    /\ filtered_notes = << >>
    /\ min_gap = DEFAULT_MIN_GAP
    /\ iterations = 0
    /\ analysis = DefaultAnalysis
    /\ chart_raised = "none"

\* one iteration of the while loop, for the draws r of random.random(), k of
\* the lane choice and u of random.uniform(0, 0.5)
GenerateStep ==
    /\ pc = "generate"
    /\ ~BeatRaises(analysis)
    /\ LoopContinues(analysis, chart_time)
    /\ ~EnergyRaises(analysis, chart_time)
    /\ iterations < MaxGenIter
    /\ \E r \in RandomDraws, k \in LaneDraws, u \in AdvanceDraws :
          /\ PlaceNote(analysis, difficulty, chart_time, r) =>
                 Len(chart_notes) < MaxGenNotes
          /\ chart_notes' =
                 IF PlaceNote(analysis, difficulty, chart_time, r)
                 THEN Append(chart_notes,
                             ChartNote(chart_time, ChooseLane(chart_time, chart_notes, k)))
                 ELSE chart_notes
          /\ chart_time' = chart_time + TimeAdvance(analysis, difficulty, u)
    /\ iterations' = iterations + 1
    /\ UNCHANGED <<chart_input, filtered_notes, min_gap, difficulty, analysis,
                   chart_raised>>
    /\ UNCHANGED gameVars
    /\ UNCHANGED monitorVars
    /\ UNCHANGED configVars
    /\ UNCHANGED twin
    /\ UNCHANGED playVars
    /\ UNCHANGED laneVars
    /\ UNCHANGED runVars

\* the loop has ended: "return self.remove_duplicate_notes(notes)"
GenerateReturn ==
    /\ pc = "generate"
    /\ ~BeatRaises(analysis)
    /\ ~LoopContinues(analysis, chart_time)
    /\ chart_input' = chart_notes
    /\ filtered_notes' = RemoveDuplicateNotes(chart_notes, DEFAULT_MIN_GAP)
    /\ chart_notes' = SortedInPlace(chart_notes)
    /\ pc' = "generated"
    /\ UNCHANGED <<min_gap, difficulty, chart_time, iterations, analysis, chart_raised>>
    /\ UNCHANGED <<notes, score, combo, combo_multiplier, lane_i, nextId, budget,
                   elapsed, hit_now, missed_now, pruned_now>>
    /\ UNCHANGED monitorVars
    /\ UNCHANGED configVars
    /\ UNCHANGED twin
    /\ UNCHANGED playVars
    /\ UNCHANGED laneVars
    /\ UNCHANGED runVars

NextGenerate ==
    \/ GenerateStep
    \/ GenerateReturn

SpecGenerate == InitGenerate /\ [][NextGenerate]_vars

----------------------------------------------------------------------------
(* generate_chart(analysis, difficulty) for short and for malformed summaries *)

\* a well-formed summary of one second
ShortAnalysis ==
    [duration |-> ShortDuration, bpm |-> DEFAULT_BPM,
     energy_levels |-> <<DEFAULT_ENERGY_TENTHS>>]

\* a summary is malformed: no energy level, or a tempo that is not positive
Malformed(a) == a.energy_levels = << >> \/ a.bpm <= 0

\* the short summary, and the short and the default summary with the energy
\* levels removed or with the tempo 0 or negative
Analyses ==
    {ShortAnalysis} \cup
    {[a EXCEPT !.energy_levels = << >>] : a \in {ShortAnalysis, DefaultAnalysis}} \cup
    {[a EXCEPT !.bpm = b] : a \in {ShortAnalysis, DefaultAnalysis},
                            b \in {0, -DEFAULT_BPM}} \cup
    {[ShortAnalysis EXCEPT !.duration = 0, !.energy_levels = << >>]}

InitGenerateAny ==
    /\ GameConstructed
    /\ MonitorConstructed
    /\ NoConfig
    /\ NoTwin
    /\ NoPlay
    /\ NoLane
    /\ NoRun
    /\ pc = "generate"
    /\ analysis \in Analyses
    /\ difficulty \in Difficulties
    /\ chart_time = 0
    /\ chart_input = << >>
    /\ chart_notes = << >>
    /\ filtered_notes = << >>
    /\ min_gap = DEFAULT_MIN_GAP
    /\ iterations = 0
    /\ chart_raised = "none"

\* generate_chart raises: ZeroDivisionError at "60.0 / bpm" before the loop,
\* or IndexError at "energy_levels[energy_index]" in an iteration
GenerateRaise ==
    /\ pc = "generate"
    /\ \/ /\ BeatRaises(analysis)
          /\ iterations = 0
          /\ chart_raised' = "ZeroDivisionError"
       \/ /\ ~BeatRaises(analysis)
          /\ LoopContinues(analysis, chart_time)
          /\ EnergyRaises(analysis, chart_time)
          /\ chart_raised' = "IndexError"
    /\ pc' = "raised"
    /\ UNCHANGED <<chart_input, chart_notes, filtered_notes, min_gap, difficulty,
                   chart_time, iterations, analysis>>
    /\ UNCHANGED <<notes, score, combo, combo_multiplier, lane_i, nextId, budget,
                   elapsed, hit_now, missed_now, pruned_now>>
    /\ UNCHANGED monitorVars
    /\ UNCHANGED configVars
    /\ UNCHANGED twin
    /\ UNCHANGED playVars
    /\ UNCHANGED laneVars
    /\ UNCHANGED runVars

NextGenerateAny ==
    \/ GenerateStep
    \/ GenerateReturn
    \/ GenerateRaise

SpecGenerateAny == InitGenerateAny /\ [][NextGenerateAny]_vars

----------------------------------------------------------------------------
(* Properties *)

Dist(n) == Abs(n.y - HIT_ZONE_Y)

\* the iteration of handle_input for lane lane_i - 1 has just ended (hit_now
\* holds what its hit_note_in_lane call hit, if the key was down)
AfterLaneStep == pc = "input" /\ lane_i > 0

\* the call update_notes(dt) has just returned
AfterUpdateNotes == pc = "input" /\ lane_i = 0

\* C1: in every reachable state score >= 1, and no step of a tick (spawn,
\* note advance and miss resolution, lane-key hit, prune) decreases score.
ScoreAtLeastOneAndMonotone ==
    /\ score >= 1
    /\ [][score' >= score /\ score' >= 1]_vars

\* a tick in which one note was missed and another one was hit
ScoreAfterMissAndHit ==
    /\ AfterLaneStep
    /\ missed_now # {}
    /\ hit_now # {}
    /\ score > ScoreAfterHits(9)

\* the step function of the combo thresholds 0-9, 10-19, 20-29, 30+
StepOfCombo(c) ==
    CASE c >= 30 -> 4
      [] c >= 20 /\ c < 30 -> 3
      [] c >= 10 /\ c < 20 -> 2
      [] OTHER -> 1

\* C2: in every reachable state combo_multiplier = step(combo), hence it is
\* one of 1, 2, 3, 4 and never out of date after a hit or a miss.
MultiplierIsStepOfCombo ==
    /\ combo >= 0
    /\ combo_multiplier = StepOfCombo(combo)
    /\ combo_multiplier \in {1, 2, 3, 4}

\* a miss that ended a combo of 29 (multiplier 3): the score is still the one
\* of 29 straight hits
MissAfterCombo29 ==
    /\ AfterUpdateNotes
    /\ missed_now # {}
    /\ score = ScoreAfterHits(29)
    /\ combo = 0

\* C3: whenever update_notes has turned a note to Missed, combo is 0 and
\* combo_multiplier is 1 when it returns, whatever they were before.
MissResetsCombo ==
    (AfterUpdateNotes /\ missed_now # {}) => (combo = 0 /\ combo_multiplier = 1)

\* a miss that ended a combo of 19 (multiplier 2)
MissAfterCombo19 ==
    /\ AfterUpdateNotes
    /\ missed_now # {}
    /\ score = ScoreAfterHits(19)
    /\ combo_multiplier = 1

\* C4: update_notes never modifies score, however many notes it marks Missed.
UpdateNotesKeepsScore ==
    [][(pc = "update_notes") => (score' = score)]_vars

\* update_notes has marked two notes Missed in one call
TwoMissesInOneTick ==
    /\ AfterUpdateNotes
    /\ Cardinality(missed_now) >= 2
    /\ score > 1

\* C5: one call of hit_note_in_lane turns at most one note to Hit, also when
\* several Active notes of the lane lie within tolerance.
AtMostOneHitPerCall ==
    Cardinality(hit_now) <= 1

\* a call that hit one note while another Active note of the same lane was
\* within tolerance too
HitWithSecondCandidate ==
    /\ AfterLaneStep
    /\ hit_now # {}
    /\ \E j \in 1 .. Len(notes) : HitCandidate(notes[j], lane_i - 1)

\* C6: hit_note_in_lane(lane) only turns to Hit a note that is in the given
\* lane, is not Missed and has |y - HIT_ZONE_Y| <= HIT_TOLERANCE.
HitOnlyInLaneWithinTolerance ==
    \A h \in hit_now :
        /\ AfterLaneStep
        /\ NoteOf(notes, h).lane = lane_i - 1
        /\ ~NoteOf(notes, h).missed
        /\ Dist(NoteOf(notes, h)) <= HIT_TOLERANCE

\* a call that hit a note and left alone an Active note within tolerance in
\* a lane whose key is handled later
HitLeavesOtherLane ==
    /\ AfterLaneStep
    /\ hit_now # {}
    /\ \E j \in 1 .. Len(notes) :
          /\ Active(notes[j])
          /\ notes[j].lane > lane_i - 1
          /\ Dist(notes[j]) <= HIT_TOLERANCE

\* C7 as claimed: the note a call hits is nearer to the hit line than every
\* other Active note of the lane within tolerance, or equally near and
\* spawned earlier.
HitConsumesNearest ==
    \A h \in hit_now :
        \A j \in 1 .. Len(notes) :
            HitCandidate(notes[j], lane_i - 1) =>
                \/ Dist(NoteOf(notes, h)) < Dist(notes[j])
                \/ /\ Dist(NoteOf(notes, h)) = Dist(notes[j])
                   /\ h < notes[j].id

\* C7 amended: the note a call hits is the earliest spawned (the first in the
\* note list) of the Active notes of the lane within tolerance, whether or
\* not it is the nearest to the hit line.
HitConsumesEarliestSpawned ==
    \A h \in hit_now :
        \A j \in 1 .. Len(notes) :
            HitCandidate(notes[j], lane_i - 1) =>
                /\ h < notes[j].id
                /\ \E i \in 1 .. (j - 1) : notes[i].id = h

\* a call that hit the earliest spawned candidate although a later one was
\* strictly nearer to the hit line
HitEarliestNotNearest ==
    /\ AfterLaneStep
    /\ \E h \in hit_now :
          \E j \in 1 .. Len(notes) :
              /\ HitCandidate(notes[j], lane_i - 1)
              /\ Dist(notes[j]) < Dist(NoteOf(notes, h))

\* the single note's position if update_notes had been applied once, with
\* dt = elapsed, to the freshly spawned note
AdvancedOnce ==
    UpdateNotes(SpawnNote(NewGame, 1, notes[1].lane), elapsed).notes[1].y

\* C8: after update_notes was applied once per delta, the deltas summing to
\* elapsed, the single note is where one call with dt = elapsed puts it.
AdvanceIsFrameRateIndependent ==
    (pc = "advance") => (notes[1].y = AdvancedOnce)

\* C9: each note causes at most one miss event, and the event has fired
\* exactly when the note's position has gone past HIT_ZONE_Y + HIT_TOLERANCE
\* (so it fires in the tick of the crossing and never again).
OneMissEventPerNote ==
    \A i \in 1 .. Len(notes) :
        /\ notes[i].misses <= 1
        /\ (notes[i].misses = 1) <=> (notes[i].y > HIT_ZONE_Y + HIT_TOLERANCE)
        /\ (notes[i].misses = 1) <=> notes[i].missed

\* a Missed note that went through a later update_notes call with dt > 0
\* (another note was missed after it)
MissedNoteSeesLaterTick ==
    /\ AfterUpdateNotes
    /\ \E i, j \in 1 .. Len(notes) :
          /\ notes[i].missed
          /\ notes[i].id \notin missed_now
          /\ notes[j].id \in missed_now

\* C10: a note's state only changes from Active: every note that was turned
\* to Hit is still Hit and was never turned to Missed, every note that was
\* turned to Missed is still Missed and was never turned to Hit, and no note
\* has hit and missed both set.
HitAndMissedAbsorbing ==
    \A i \in 1 .. Len(notes) :
        /\ notes[i].hit <=> (notes[i].hits >= 1)
        /\ notes[i].missed <=> (notes[i].misses >= 1)
        /\ notes[i].hits + notes[i].misses <= 1
        /\ ~(notes[i].hit /\ notes[i].missed)

\* a Hit note and a Missed note of earlier ticks, both in the lane whose
\* handle_input iteration has just ended, after an update_notes call with
\* dt > 0 (it turned another note to Missed)
TerminalNotesSeeLaterCalls ==
    /\ AfterLaneStep
    /\ missed_now # {}
    /\ \E i, j \in 1 .. Len(notes) :
          /\ notes[i].hit
          /\ notes[i].id \notin hit_now
          /\ notes[i].lane = lane_i - 1
          /\ notes[j].missed
          /\ notes[j].id \notin missed_now
          /\ notes[j].lane = lane_i - 1

\* the position the prune compares with
MaxY == WINDOW_HEIGHT + 100

\* update() has returned (or has not been called yet): the prune is done
AfterPrune == pc = "spawn"

\* C11 as claimed: the prune removes exactly the notes with y > maxY and keeps
\* every note with y <= maxY, a note exactly at maxY included.
PruneRemovesAboveMaxY ==
    AfterPrune =>
        /\ \A i \in 1 .. Len(notes) : notes[i].y <= MaxY
        /\ \A n \in pruned_now : n.y > MaxY

\* C11 amended: the prune removes exactly the notes with y >= maxY and keeps
\* every note with y < maxY; a note exactly at maxY is removed.
PruneRemovesFromMaxY ==
    AfterPrune =>
        /\ \A i \in 1 .. Len(notes) : notes[i].y < MaxY
        /\ \A n \in pruned_now : n.y >= MaxY

\* a prune that removed a note exactly at maxY and kept a Missed note below it
PrunedNoteAtMaxY ==
    /\ AfterPrune
    /\ \E n \in pruned_now : n.y = MaxY
    /\ \E i \in 1 .. Len(notes) : notes[i].missed /\ notes[i].y < MaxY

\* the quality levels in order: low 0, medium 1, high 2
Rank(q) == CASE q = "low" -> 0 [] q = "medium" -> 1 [] q = "high" -> 2

\* the average FPS of a buffer of len durations summing to sum (in ms) is
\* below f / above f
FpsBelow(len, sum, f) == len * 1000 < f * sum

FpsAbove(len, sum, f) == len * 1000 > f * sum

\* the latest update call found the cooldown elapsed
CooldownElapsed == wall_clock - last_adjustment > ADJUST_INTERVAL

\* C12: one PerformanceMonitor.update changes the quality level by at most
\* one step; from High it goes to Medium, also when the average FPS is below
\* both 45 and 30 and the cooldown has elapsed.
OneQualityStepPerUpdate ==
    \A i \in 1 .. Len(transitions) :
        /\ Abs(Rank(transitions[i].from) - Rank(transitions[i].to)) = 1
        /\ (transitions[i].from = "high") => (transitions[i].to = "medium")

\* the update call of test_performance_monitor: a full buffer of 0.04 s
\* frames (25 FPS), level High, cooldown elapsed: the level is Medium
HighToMediumAt25Fps ==
    /\ pc = "monitor"
    /\ updates = 1
    /\ Len(transitions) = 1
    /\ transitions[1].from = "high"
    /\ transitions[1].len = FRAME_WINDOW
    /\ FpsBelow(transitions[1].len, transitions[1].sum, FPS_TO_LOW)
    /\ quality_level = "medium"

\* C13: the only quality transitions are High->Medium (average FPS < 45),
\* Medium->Low (average FPS < 30) and Medium->High (average FPS > 55); no
\* transition happens at an average FPS within [45, 55].
OnlyHystereticTransitions ==
    \A i \in 1 .. Len(transitions) :
        LET t == transitions[i]
        IN  /\ \/ /\ t.from = "high" /\ t.to = "medium"
                  /\ FpsBelow(t.len, t.sum, FPS_TO_MEDIUM)
               \/ /\ t.from = "medium" /\ t.to = "low"
                  /\ FpsBelow(t.len, t.sum, FPS_TO_LOW)
               \/ /\ t.from = "medium" /\ t.to = "high"
                  /\ FpsAbove(t.len, t.sum, FPS_TO_HIGH)
            /\ \/ FpsBelow(t.len, t.sum, FPS_TO_MEDIUM)
               \/ FpsAbove(t.len, t.sum, FPS_TO_HIGH)

\* an update at level Medium with the cooldown elapsed and the average FPS
\* within [45, 55]: the level has stayed Medium
MediumStaysWithinBand ==
    /\ pc = "monitor"
    /\ Len(transitions) = 1
    /\ quality_level = "medium"
    /\ CooldownElapsed
    /\ SumSeq(frame_times) > 0
    /\ ~AvgFpsBelow(frame_times, FPS_TO_MEDIUM)
    /\ ~AvgFpsAbove(frame_times, FPS_TO_HIGH)

\* C14: Low is absorbing: no transition leaves Low, so a transition to Low is
\* the last one and the level is Low from then on.
LowIsAbsorbing ==
    \A i \in 1 .. Len(transitions) :
        /\ transitions[i].from # "low"
        /\ (transitions[i].to = "low") =>
               (i = Len(transitions) /\ quality_level = "low")

\* an update at level Low with the cooldown elapsed and an average FPS above
\* 55: the level has stayed Low
LowStaysAtHighFps ==
    /\ pc = "monitor"
    /\ quality_level = "low"
    /\ CooldownElapsed
    /\ SumSeq(frame_times) > 0
    /\ AvgFpsAbove(frame_times, FPS_TO_HIGH)

\* C15: every transition sets last_adjustment to its clock time and none
\* occurs on cooldown: two consecutive transitions are more than 2 s apart.
TransitionsRespectCooldown ==
    /\ \A i \in 2 .. Len(transitions) :
           transitions[i].at - transitions[i - 1].at > ADJUST_INTERVAL
    /\ (transitions # << >>) =>
           (last_adjustment = transitions[Len(transitions)].at)
    /\ (transitions = << >>) => (last_adjustment = NewMonitor.last_adjustment)

\* four updates at 25 FPS, one second apart: the first goes to Medium, the
\* second (1 s later) and the third (exactly 2 s later) are on cooldown, the
\* fourth goes to Low
CooldownDelaysSecondTransition ==
    /\ pc = "monitor"
    /\ updates = 4
    /\ Len(transitions) = 2
    /\ transitions[1].len < FRAME_WINDOW
    /\ transitions[2].at - transitions[1].at = ADJUST_INTERVAL + 1000
    /\ \A i \in 1 .. Len(appended) : appended[i] = TEST_FRAME_MS

\* C16: no quality transition occurs while the buffer holds fewer than 60
\* durations, the first updates after construction included.
NoTransitionBeforeFullWindow ==
    \A i \in 1 .. Len(transitions) : transitions[i].len >= FRAME_WINDOW

\* the most recent k entries of s, in order
LastOf(s, k) == SubSeq(s, Len(s) - k + 1, Len(s))

\* C17: after every update the buffer is the most recent min(n, 60) appended
\* durations in arrival order, n being the number of durations appended; its
\* length never exceeds 60.
BufferIsLastSixty ==
    LET n == Len(appended)
        k == IF n < FRAME_WINDOW THEN n ELSE FRAME_WINDOW
    IN  /\ Len(frame_times) <= FRAME_WINDOW
        /\ frame_times = LastOf(appended, k)

\* more than 60 durations were appended, the latest ones differ from the
\* dropped ones and from each other
BufferHasDroppedOldest ==
    /\ pc = "monitor"
    /\ Len(appended) >= FRAME_WINDOW + 3
    /\ appended[1] = TEST_FRAME_MS
    /\ frame_times[FRAME_WINDOW] = 2
    /\ frame_times[FRAME_WINDOW - 1] = 0
    /\ frame_times[FRAME_WINDOW - 2] = 2

\* the list s is in non-decreasing order of time
SortedByTime(s) ==
    \A i, j \in 1 .. Len(s) : (i < j) => (s[i].time <= s[j].time)

\* the lists s and t hold the same notes, each as many times
SameNotes(s, t) ==
    /\ Len(s) = Len(t)
    /\ \A i \in 1 .. Len(s) :
           Cardinality({j \in 1 .. Len(s) : s[j] = s[i]})
               = Cardinality({j \in 1 .. Len(t) : t[j] = s[i]})

\* the entries of s at the indices of K, in order
Restrict(s, K) ==
    [m \in 1 .. Cardinality(K) |->
        s[CHOOSE k \in K : Cardinality({j \in K : j <= k}) = m]]

\* the rule of the claim: the gap to the last kept note is >= minGap and
\* (it is >= 2 * minGap or the lanes differ)
FarEnough(n, last, g) ==
    /\ n.time - last.time >= g
    /\ (n.time - last.time >= 2 * g \/ n.lane # last.lane)

\* K is the set of kept indices of the sorted list s: the first, and each
\* later one exactly when it is far enough from the last kept before it
KeptIndices(s, K, g) ==
    /\ 1 \in K
    /\ \A k \in 2 .. Len(s) :
           (k \in K) <=>
               FarEnough(s[k], s[MaxOf({j \in K : j < k})], g)

\* C18: remove_duplicate_notes returns the notes sorted by time, the first
\* one kept and each later one kept exactly when its gap to the last kept note
\* is >= minGap and (the gap is >= 2 * minGap or the lanes differ).
DedupKeepsFarEnoughNotes ==
    (pc = "deduped") =>
        IF Len(chart_input) <= 1
        THEN filtered_notes = chart_input
        ELSE /\ SortedByTime(chart_notes)
             /\ SameNotes(chart_notes, chart_input)
             /\ \E K \in SUBSET (1 .. Len(chart_notes)) :
                    /\ KeptIndices(chart_notes, K, min_gap)
                    /\ filtered_notes = Restrict(chart_notes, K)

\* the call of test_chart_generator: [(1.0, lane 0), (1.05, lane 0),
\* (2.0, lane 1)] with the default min_gap gives [(1.0, lane 0), (2.0, lane 1)]
DedupOfTestList ==
    /\ pc = "deduped"
    /\ chart_input = <<ChartNote(1000, 0), ChartNote(1050, 0), ChartNote(2000, 1)>>
    /\ min_gap = DEFAULT_MIN_GAP
    /\ filtered_notes = <<ChartNote(1000, 0), ChartNote(2000, 1)>>

\* the list [(0, lane 0), (0.12, lane 1), (0.20, lane 0)]
CrossLaneList == <<ChartNote(0, 0), ChartNote(120, 1), ChartNote(200, 0)>>

\* C19 as claimed: remove_duplicate_notes applied to [(0, lane 0),
\* (0.12, lane 1), (0.20, lane 0)] with minGap 0.1 keeps all three notes.
CrossLaneListAllKept ==
    (pc = "deduped" /\ chart_input = CrossLaneList /\ min_gap = DEFAULT_MIN_GAP)
        => (filtered_notes = CrossLaneList)

\* C19 amended: remove_duplicate_notes applied to that list with minGap 0.1
\* keeps the first two notes and drops the third, whose gap to the last kept
\* note (0.20 - 0.12 = 0.08) is below minGap.
CrossLaneListDropsThird ==
    (pc = "deduped" /\ chart_input = CrossLaneList /\ min_gap = DEFAULT_MIN_GAP)
        => (filtered_notes = <<ChartNote(0, 0), ChartNote(120, 1)>>)

\* the call on that list has returned two notes
CrossLaneListReturned ==
    /\ pc = "deduped"
    /\ chart_input = CrossLaneList
    /\ min_gap = DEFAULT_MIN_GAP
    /\ Len(filtered_notes) = 2

\* the notes of the list s have strictly increasing times, lanes in
\* [0, NUM_LANES) and times in [0, duration)
OrderedAndInRange(s, a) ==
    /\ \A i, j \in 1 .. Len(s) : (i < j) => (s[i].time < s[j].time)
    /\ \A i \in 1 .. Len(s) :
           /\ s[i].lane \in Lanes
           /\ s[i].time >= 0
           /\ s[i].time < a.duration * 1000

\* C20: for the default summary and any difficulty, the chart generate_chart
\* returns has strictly increasing note times, every lane in [0, 4) and every
\* time in [0, 180), whatever the random draws.
ChartIsOrderedAndInRange ==
    (pc = "generated") => OrderedAndInRange(filtered_notes, DefaultAnalysis)

\* an Easy chart was returned with two notes, the second one placed in the
\* last iteration the loop can make
EasyChartReturned ==
    /\ pc = "generated"
    /\ difficulty = "Easy"
    /\ Len(filtered_notes) = 2
    /\ filtered_notes[2].time + TimeAdvance(DefaultAnalysis, difficulty, 0)
           >= DefaultAnalysis.duration * 1000

----------------------------------------------------------------------------
(* C21 *)

\* C21: when the summary is malformed (no energy level, or a tempo that is
\* not positive) generate_chart does not raise: it returns a chart
MalformedSummaryNeverRaises == Malformed(analysis) => pc # "raised"

----------------------------------------------------------------------------
(* Two sessions that are given the same dt and the same key states *)

(* Bounds of the model *)

\* ticks of the two sessions explored
MaxTwinTicks == 2
\* frame durations in ms: a stalled clock, a 25 fps frame, a 1.5 s hitch
TwinDts == {0, TEST_FRAME_MS, 1500}
\* pygame.key.get_pressed(): the lanes whose key is down
TwinKeys == {{}, {0}}
\* "no spawn" for the lane of a tick whose spawn interval has not elapsed
NoSpawn == NUM_LANES
\* what "Spawn notes" does in a tick: nothing, or a note in the first or in
\* the last lane
TwinSpawns == {NoSpawn, 0, NUM_LANES - 1}

RECURSIVE HandleInputFrom(_, _, _)
\* handle_input from index i of lane_keys on, keys the lanes whose key is down
HandleInputFrom(g, keys, i) ==
    IF i >= NUM_LANES THEN g
    ELSE HandleInputFrom(IF i \in keys THEN HitNoteInLane(g, i) ELSE g, keys, i + 1)

\* handle_input()
HandleInput(g, keys) == HandleInputFrom(g, keys, 0)

\* the game after "Spawn notes": lane is random.randint(0, NUM_LANES - 1) when
\* the spawn interval has elapsed on pygame.time.get_ticks(), NoSpawn otherwise
AfterSpawn(g, id, lane) == IF lane = NoSpawn THEN g ELSE SpawnNote(g, id, lane)

\* the game part of update(dt): spawn, update_notes, handle_input, prune
GameUpdate(g, id, lane, d, keys) ==
    Prune(HandleInput(UpdateNotes(AfterSpawn(g, id, lane), d), keys))

\* update(dt) of a session s: performance_monitor.update(dt) comes first and
\* an exception it raises leaves update() before the game is touched
SessionUpdate(s, id, lane, d, keys, step) ==
    LET now == s.clock + step
        m == MonitorUpdate(s.monitor, d, now)
    IN  [game |-> IF m.raised THEN s.game ELSE GameUpdate(s.game, id, lane, d, keys),
         monitor |-> m,
         clock |-> now]

\* the first session, held in the variables of the game and of the monitor
Session == [game |-> Game, monitor |-> Monitor, clock |-> wall_clock]

\* a game with one note, spawned in lane 0 and brought to y = 675
Approaching == UpdateNotes(SpawnNote(NewGame, 1, 0), WarmupDt)

InitTwin ==
    /\ \E g \in {NewGame, Approaching} :
          /\ notes = g.notes
          /\ score = g.score
          /\ combo = g.combo
          /\ combo_multiplier = g.combo_multiplier
          /\ nextId = Len(g.notes) + 1
    /\ budget = 0
    /\ pc = "tick"
    /\ lane_i = 0
    /\ elapsed = 0
    /\ hit_now = {}
    /\ missed_now = {}
    /\ pruned_now = {}
    /\ MonitorConstructed
    /\ NoChart
    /\ NoConfig
    /\ NoRun
    /\ NoPlay
    /\ NoLane
    /\ twin = Session

\* one tick of both sessions: the same dt and the same key states; the spawn
\* decision, the lane and the wall clock are each session's own
TwinTick ==
    /\ pc = "tick"
    /\ ticks < MaxTwinTicks
    /\ \E d \in TwinDts, keys \in TwinKeys,
          lane1 \in TwinSpawns, step1 \in ClockSteps,
          lane2 \in TwinSpawns, step2 \in ClockSteps :
          LET s1 == SessionUpdate(Session, nextId, lane1, d, keys, step1)
              spawned == AfterSpawn(Game, nextId, lane1)
              moved == UpdateNotes(spawned, d)
              played == HandleInput(moved, keys)
          IN  /\ SetGame(s1.game)
              /\ SetMonitor(s1.monitor)
              /\ wall_clock' = s1.clock
              /\ twin' = SessionUpdate(twin, nextId, lane2, d, keys, step2)
              /\ missed_now' = IF s1.monitor.raised THEN {}
                               ELSE NewlyMissed(spawned.notes, moved.notes)
              /\ hit_now' = IF s1.monitor.raised THEN {}
                            ELSE NewlyHit(moved.notes, played.notes)
              /\ pruned_now' = IF s1.monitor.raised THEN {}
                               ELSE Removed(played.notes, s1.game.notes)
              /\ appended' = Append(appended, d)
              /\ transitions' =
                    IF s1.monitor.quality_level # quality_level
                    THEN Append(transitions,
                                [from |-> quality_level, to |-> s1.monitor.quality_level,
                                 at |-> s1.clock, len |-> Len(s1.monitor.frame_times),
                                 sum |-> SumSeq(s1.monitor.frame_times)])
                    ELSE transitions
    /\ nextId' = nextId + 1
    /\ updates' = updates + 1
    /\ ticks' = ticks + 1
    /\ UNCHANGED <<pc, lane_i, budget, elapsed>>
    /\ UNCHANGED chartVars
    /\ UNCHANGED configVars
    /\ UNCHANGED <<run_pc, running, background_mode, audio_available,
                   display, audio_initialized, cleanups, run_result,
                   exit_code, stop_tick, tick_raised>>
    /\ UNCHANGED playVars
    /\ UNCHANGED laneVars

NextTwin == TwinTick

SpecTwin == InitTwin /\ [][NextTwin]_vars

----------------------------------------------------------------------------
(* C22 *)

\* C22: two sessions that are given the same dt and the same key states at
\* every tick have the same notes, score, combo, multiplier and quality level
\* after every tick
SameInputsSameState ==
    /\ twin.game = Game
    /\ twin.monitor.quality_level = quality_level

----------------------------------------------------------------------------
(* ConfigManager.validate_config(config) *)

\* WINDOW_WIDTH
WINDOW_WIDTH == 1200
\* "if config["display"]["width"] < 800", "... ["height"] < 600"
MIN_WIDTH == 800
MIN_HEIGHT == 600
\* the volumes, in hundredths: the range [0.0, 1.0] and the defaults
MIN_VOLUME == 0
MAX_VOLUME == 100
DEFAULT_MASTER_VOLUME == 80
DEFAULT_MUSIC_VOLUME == 70
DEFAULT_SFX_VOLUME == 90
\* note_speed_multiplier, in tenths: the range [0.1, 3.0] and the default
MIN_SPEED_MULTIPLIER == 1
MAX_SPEED_MULTIPLIER == 30
DEFAULT_SPEED_MULTIPLIER == 10
\* hit_tolerance: the range [10, 100]
MIN_TOLERANCE == 10
MAX_TOLERANCE == 100
\* particle_limit: the range [10, 500] and the default
MIN_PARTICLES == 10
MAX_PARTICLES == 500
DEFAULT_PARTICLES == 100
valid_quality_modes == {"auto", "high", "medium", "low"}

\* the values of a config entry: a number, float("nan"), or a string where
\* a number is expected
Num(n) == [kind |-> "num", v |-> n]
NaN == [kind |-> "nan", v |-> 0]
Text == [kind |-> "str", v |-> 0]

\* "a < b" raises TypeError: a string is compared with a number
LessRaises(a, b) == a.kind = "str" \/ b.kind = "str"

\* "a < b" for two values that can be compared: false when either is NaN
Less(a, b) == a.kind = "num" /\ b.kind = "num" /\ a.v < b.v

\* min(hi, x) and max(lo, x) of Python: the first argument unless the second
\* is smaller (larger)
PyMin(hi, x) == IF Less(x, hi) THEN x ELSE hi
PyMax(lo, x) == IF Less(lo, x) THEN x ELSE lo

\* max(lo, min(hi, x)) for x that can be compared
Clamp(lo, hi, x) == PyMax(Num(lo), PyMin(Num(hi), x))

\* self.default_config (the sections validate_config reads)
DefaultConfig ==
    [display |-> [present |-> TRUE, width |-> Num(WINDOW_WIDTH),
                  height |-> Num(WINDOW_HEIGHT)],
     audio |-> [present |-> TRUE, master_volume |-> Num(DEFAULT_MASTER_VOLUME),
                music_volume |-> Num(DEFAULT_MUSIC_VOLUME),
                sfx_volume |-> Num(DEFAULT_SFX_VOLUME)],
     gameplay |-> [present |-> TRUE,
                   note_speed_multiplier |-> Num(DEFAULT_SPEED_MULTIPLIER),
                   hit_tolerance |-> Num(HIT_TOLERANCE)],
     performance |-> [present |-> TRUE, quality_mode |-> "auto",
                      particle_limit |-> Num(DEFAULT_PARTICLES)]]

\* the outcome of a part of the try block: whether it raised, and the dict
Outcome(r, c) == [raised |-> r, config |-> c]

\* "Validate display settings" with too small a width or height raising
\* instead of being replaced
ValidateDisplay_Reject(c) ==
    IF ~c.display.present \/ LessRaises(c.display.width, Num(MIN_WIDTH))
    THEN Outcome(TRUE, c)
    ELSE IF Less(c.display.width, Num(MIN_WIDTH)) THEN Outcome(TRUE, c)
    ELSE IF LessRaises(c.display.height, Num(MIN_HEIGHT)) THEN Outcome(TRUE, c)
    ELSE IF Less(c.display.height, Num(MIN_HEIGHT)) THEN Outcome(TRUE, c)
    ELSE Outcome(FALSE, c)

\* "Validate display settings": KeyError when the section is missing,
\* TypeError when a value cannot be compared; the width is replaced before
\* the height is read
ValidateDisplay(c) ==
    IF ~c.display.present \/ LessRaises(c.display.width, Num(MIN_WIDTH))
    THEN Outcome(TRUE, c)
    ELSE LET w == IF Less(c.display.width, Num(MIN_WIDTH))
                  THEN [c EXCEPT !.display.width = Num(MIN_WIDTH)] ELSE c
         IN  IF LessRaises(c.display.height, Num(MIN_HEIGHT)) THEN Outcome(TRUE, w)
             ELSE IF Less(c.display.height, Num(MIN_HEIGHT))
             THEN Outcome(FALSE, [w EXCEPT !.display.height = Num(MIN_HEIGHT)])
             ELSE Outcome(FALSE, w)

\* "Validate audio settings": the three volumes in the order of the for loop
ValidateAudio(c) ==
    IF ~c.audio.present \/ c.audio.master_volume.kind = "str"
    THEN Outcome(TRUE, c)
    ELSE LET a == [c EXCEPT !.audio.master_volume = Clamp(MIN_VOLUME, MAX_VOLUME, @)]
         IN  IF c.audio.music_volume.kind = "str" THEN Outcome(TRUE, a)
             ELSE LET b == [a EXCEPT !.audio.music_volume =
                                         Clamp(MIN_VOLUME, MAX_VOLUME, @)]
                  IN  IF c.audio.sfx_volume.kind = "str" THEN Outcome(TRUE, b)
                      ELSE Outcome(FALSE,
                                   [b EXCEPT !.audio.sfx_volume =
                                                Clamp(MIN_VOLUME, MAX_VOLUME, @)])

\* "Validate gameplay settings"
ValidateGameplay(c) ==
    IF ~c.gameplay.present \/ c.gameplay.note_speed_multiplier.kind = "str"
    THEN Outcome(TRUE, c)
    ELSE LET g == [c EXCEPT !.gameplay.note_speed_multiplier =
                               Clamp(MIN_SPEED_MULTIPLIER, MAX_SPEED_MULTIPLIER, @)]
         IN  IF c.gameplay.hit_tolerance.kind = "str" THEN Outcome(TRUE, g)
             ELSE Outcome(FALSE,
                          [g EXCEPT !.gameplay.hit_tolerance =
                                       Clamp(MIN_TOLERANCE, MAX_TOLERANCE, @)])

\* "Validate performance settings"
ValidatePerformance(c) ==
    IF ~c.performance.present THEN Outcome(TRUE, c)
    ELSE LET q == IF c.performance.quality_mode \notin valid_quality_modes
                  THEN [c EXCEPT !.performance.quality_mode = "auto"] ELSE c
         IN  IF c.performance.particle_limit.kind = "str" THEN Outcome(TRUE, q)
             ELSE Outcome(FALSE,
                          [q EXCEPT !.performance.particle_limit =
                                       Clamp(MIN_PARTICLES, MAX_PARTICLES, @)])

\* the try block: the four parts in order, left at the first that raises
TryValidate(c) ==
    LET d == ValidateDisplay(c)
        a == ValidateAudio(d.config)
        g == ValidateGameplay(a.config)
    IN  IF d.raised THEN d
        ELSE IF a.raised THEN a
        ELSE IF g.raised THEN g
        ELSE ValidatePerformance(g.config)

\* validate_config(config): what it returns ("except Exception" returns a copy
\* of the default config), whether an exception leaves it, and the argument
\* dict after the call
ValidateConfig(c) ==
    LET t == TryValidate(c)
    IN  [raised |-> FALSE,
         returned |-> IF t.raised THEN DefaultConfig ELSE t.config,
         config |-> t.config]

(* Bounds of the model *)

ConfigWidths == {Num(100), Num(MIN_WIDTH), Num(WINDOW_WIDTH), NaN, Text}
ConfigHeights == {Num(100), Num(MIN_HEIGHT), NaN}
ConfigVolumes == {Num(-50), Num(DEFAULT_MASTER_VOLUME), Num(150)}
ConfigTolerances == {Num(-5), Num(HIT_TOLERANCE), Num(500), NaN, Text}
ConfigQualityModes == {"auto", "ultra"}
ConfigParticles == {Num(DEFAULT_PARTICLES), Num(1000)}

\* the configs validate_config is called with: each section present or
\* missing, the three volumes equal
ConfigInputs ==
    {[display |-> [present |-> p[1], width |-> w, height |-> h],
      audio |-> [present |-> p[2], master_volume |-> v, music_volume |-> v,
                 sfx_volume |-> v],
      gameplay |-> [present |-> p[3],
                    note_speed_multiplier |-> Num(DEFAULT_SPEED_MULTIPLIER),
                    hit_tolerance |-> t],
      performance |-> [present |-> p[4], quality_mode |-> q, particle_limit |-> n]] :
        p \in [1 .. 4 -> BOOLEAN], w \in ConfigWidths, h \in ConfigHeights,
        v \in ConfigVolumes, t \in ConfigTolerances, q \in ConfigQualityModes,
        n \in ConfigParticles}

InitConfig ==
    /\ GameConstructed
    /\ MonitorConstructed
    /\ NoChart
    /\ NoTwin
    /\ NoPlay
    /\ NoLane
    /\ NoRun
    /\ pc = "validate"
    /\ config_input \in ConfigInputs
    /\ config = config_input
    /\ config_returned = << >>

\* validated = config_manager.validate_config(config)
ValidateStep ==
    /\ pc = "validate"
    /\ LET r == ValidateConfig(config)
       IN  /\ config' = r.config
           /\ config_returned' = IF r.raised THEN config_returned ELSE r.returned
           /\ pc' = IF r.raised THEN "rejected" ELSE "validated"
    /\ UNCHANGED config_input
    /\ UNCHANGED <<notes, score, combo, combo_multiplier, lane_i, nextId, budget,
                   elapsed, hit_now, missed_now, pruned_now>>
    /\ UNCHANGED monitorVars
    /\ UNCHANGED chartVars
    /\ UNCHANGED twin
    /\ UNCHANGED playVars
    /\ UNCHANGED laneVars
    /\ UNCHANGED runVars

NextConfig == ValidateStep

SpecConfig == InitConfig /\ [][NextConfig]_vars

----------------------------------------------------------------------------
(* C23, C24 *)

\* a config has every section validate_config reads and no string where a
\* number is compared
Processable(c) ==
    /\ c.display.present /\ c.audio.present /\ c.gameplay.present
    /\ c.performance.present
    /\ \A x \in {c.display.width, c.display.height, c.audio.master_volume,
                 c.audio.music_volume, c.audio.sfx_volume,
                 c.gameplay.note_speed_multiplier, c.gameplay.hit_tolerance,
                 c.performance.particle_limit} : x.kind # "str"

\* the number of the range [lo, hi] nearest to n
Nearest(lo, hi, n) == IF n < lo THEN lo ELSE IF n > hi THEN hi ELSE n

\* a value of a processable config is out of its range
OutOfRange(c) ==
    \/ c.display.width.kind = "num" /\ c.display.width.v < MIN_WIDTH
    \/ c.display.height.kind = "num" /\ c.display.height.v < MIN_HEIGHT
    \/ /\ c.gameplay.hit_tolerance.kind = "num"
       /\ Nearest(MIN_TOLERANCE, MAX_TOLERANCE, c.gameplay.hit_tolerance.v)
              # c.gameplay.hit_tolerance.v

\* C23 as stated: a config with an invalid value (a display size or a hit
\* tolerance out of range) is rejected with a fault, not silently clamped
InvalidValuesAreRejected ==
    (pc # "validate" /\ Processable(config_input) /\ OutOfRange(config_input))
        => pc = "rejected"

\* C23 amended: validate_config rejects nothing. In a config it can process a
\* width below 800 becomes 800, a height below 600 becomes 600 and a hit
\* tolerance becomes the nearest number of [10, 100]; a config it cannot
\* process (a missing section, a string for a number) is answered with the
\* default config
InvalidValuesAreReplaced ==
    pc # "validate" =>
        /\ pc = "validated"
        /\ Processable(config_input) =>
              /\ config_input.display.width.kind = "num" =>
                    config_returned.display.width =
                        Num(Max(MIN_WIDTH, config_input.display.width.v))
              /\ config_input.display.height.kind = "num" =>
                    config_returned.display.height =
                        Num(Max(MIN_HEIGHT, config_input.display.height.v))
              /\ config_input.gameplay.hit_tolerance.kind = "num" =>
                    config_returned.gameplay.hit_tolerance =
                        Num(Nearest(MIN_TOLERANCE, MAX_TOLERANCE,
                                    config_input.gameplay.hit_tolerance.v))
        /\ ~Processable(config_input) => config_returned = DefaultConfig

\* a config with a width of 100 and a hit tolerance of 500 came back with 800
\* and 100
SmallWidthAndLargeToleranceReplaced ==
    /\ pc = "validated"
    /\ config_input.display.width = Num(100)
    /\ config_input.gameplay.hit_tolerance = Num(500)
    /\ config_returned.display.width = Num(MIN_WIDTH)
    /\ config_returned.gameplay.hit_tolerance = Num(MAX_TOLERANCE)

\* "x >= n" of Python: false for NaN
AtLeast(x, n) == x.kind = "num" /\ x.v >= n

\* C24: whatever the config, the one validate_config returns has a display
\* width of at least 800 and a height of at least 600
ReturnedDisplayIsLargeEnough ==
    pc = "validated" =>
        /\ AtLeast(config_returned.display.width, MIN_WIDTH)
        /\ AtLeast(config_returned.display.height, MIN_HEIGHT)

----------------------------------------------------------------------------
(* main() and RhythmGame.run() *)

(* Bounds of the model *)

\* iterations of the while loop of run() explored
MaxRunTicks == 2
\* frame durations in ms: a stalled clock, a 25 fps frame
RunDts == {0, TEST_FRAME_MS}
\* what "Spawn notes" does in a tick: nothing, or a note in the first lane
RunSpawns == {NoSpawn, 0}
\* pygame.event.get() of one iteration: QUIT, and KEYDOWN of ESCAPE, of SPACE
\* and of another key
EventQueues ==
    {<< >>, <<"QUIT">>, <<"ESCAPE">>, <<"SPACE">>, <<"OTHER">>, <<"QUIT", "SPACE">>}
Displays == {"ok", "no_modes", "no_window", "none"}

\* an event after which handle_events has set self.running to False
StopEvents == {"QUIT", "ESCAPE"}

\* the queue holds a QUIT or the key-down of ESCAPE
StopRequested(q) == \E i \in 1 .. Len(q) : q[i] \in StopEvents

\* modes[(modes.index(mode) + 1) % len(modes)]
NextMode(m) ==
    CASE m = "spectrum" -> "wave"
      [] m = "wave" -> "particle"
      [] OTHER -> "spectrum"

RECURSIVE RunningAfter_EscapeIgnored(_, _)
\* the for loop without the branch of K_ESCAPE
RunningAfter_EscapeIgnored(r, q) ==
    IF q = << >> THEN r
    ELSE RunningAfter_EscapeIgnored(IF Head(q) = "QUIT" THEN FALSE ELSE r, Tail(q))

RECURSIVE RunningAfter(_, _)
\* self.running after the for loop of handle_events over the queue q
RunningAfter(r, q) ==
    IF q = << >> THEN r
    ELSE RunningAfter(IF Head(q) \in StopEvents THEN FALSE ELSE r, Tail(q))

RECURSIVE ModeAfter(_, _)
\* self.background_renderer.mode after the for loop of handle_events
ModeAfter(m, q) ==
    IF q = << >> THEN m
    ELSE ModeAfter(IF Head(q) = "SPACE" THEN NextMode(m) ELSE m, Tail(q))

\* the program is started by main(), or run() is called on a new RhythmGame
\* without main() ("no main")
InitRun ==
    /\ notes = NewGame.notes
    /\ score = NewGame.score
    /\ combo = NewGame.combo
    /\ combo_multiplier = NewGame.combo_multiplier
    /\ nextId = 1
    /\ budget = 0
    /\ pc = "tick"
    /\ lane_i = 0
    /\ elapsed = 0
    /\ hit_now = {}
    /\ missed_now = {}
    /\ pruned_now = {}
    /\ MonitorConstructed
    /\ NoChart
    /\ NoConfig
    /\ NoTwin
    /\ NoPlay
    /\ NoLane
    /\ ticks = 0
    /\ run_pc \in {"main", "run"}
    /\ exit_code = IF run_pc = "main" THEN "none" ELSE "no main"
    /\ running = FALSE
    /\ background_mode = "spectrum"
    /\ audio_available \in BOOLEAN
    /\ display \in Displays
    /\ audio_initialized = FALSE
    /\ cleanups = 0
    /\ run_result = "none"
    /\ stop_tick = 0
    /\ tick_raised = FALSE

\* the variables of the session, which main() and run() leave alone outside
\* update()
sessionVars == <<gameVars, monitorVars>>

\* main(): check_system_requirements() and "if failed_requirements: return 1";
\* audio_available is what initialize_audio_system() returned
MainCheckRequirements ==
    /\ run_pc = "main"
    /\ IF ~audio_available \/ display = "none"
       THEN /\ exit_code' = "1"
            /\ run_pc' = "exited"
       ELSE /\ exit_code' = exit_code
            /\ run_pc' = "setup_display"
    /\ UNCHANGED <<ticks, running, background_mode, audio_available, display,
                   audio_initialized, cleanups, run_result, stop_tick, tick_raised>>
    /\ UNCHANGED sessionVars
    /\ UNCHANGED chartVars
    /\ UNCHANGED configVars
    /\ UNCHANGED twin
    /\ UNCHANGED playVars
    /\ UNCHANGED laneVars

\* main(): "if not setup_display_fallbacks(): return 1", then
\* "game = RhythmGame()"
MainSetupDisplay ==
    /\ run_pc = "setup_display"
    /\ IF display = "no_modes"
       THEN /\ exit_code' = "1"
            /\ run_pc' = "exited"
       ELSE /\ exit_code' = exit_code
            /\ run_pc' = "run"
    /\ UNCHANGED <<ticks, running, background_mode, audio_available, display,
                   audio_initialized, cleanups, run_result, stop_tick, tick_raised>>
    /\ UNCHANGED sessionVars
    /\ UNCHANGED chartVars
    /\ UNCHANGED configVars
    /\ UNCHANGED twin
    /\ UNCHANGED playVars
    /\ UNCHANGED laneVars

\* run(): "if not self.init_display(): return False"
RunInitDisplay ==
    /\ run_pc = "run"
    /\ IF display \in {"no_window", "none"}
       THEN /\ run_result' = "False"
            /\ run_pc' = "run_returned"
       ELSE /\ run_result' = run_result
            /\ run_pc' = "init_audio"
    /\ UNCHANGED <<ticks, running, background_mode, audio_available, display,
                   audio_initialized, cleanups, exit_code, stop_tick, tick_raised>>
    /\ UNCHANGED sessionVars
    /\ UNCHANGED chartVars
    /\ UNCHANGED configVars
    /\ UNCHANGED twin
    /\ UNCHANGED playVars
    /\ UNCHANGED laneVars

\* run(): initialize_mixer() (a failure is logged, "running in demo mode"),
\* the clock is created and "self.running = True"
RunInitAudio ==
    /\ run_pc = "init_audio"
    /\ audio_initialized' = audio_available
    /\ running' = TRUE
    /\ run_pc' = "loop_test"
    /\ UNCHANGED <<ticks, background_mode, audio_available, display, cleanups,
                   run_result, exit_code, stop_tick, tick_raised>>
    /\ UNCHANGED sessionVars
    /\ UNCHANGED chartVars
    /\ UNCHANGED configVars
    /\ UNCHANGED twin
    /\ UNCHANGED playVars
    /\ UNCHANGED laneVars

\* "while self.running" is true: an iteration starts
LoopIterate ==
    /\ run_pc = "loop_test"
    /\ running
    /\ ticks < MaxRunTicks
    /\ run_pc' = "handle_events"
    /\ UNCHANGED <<ticks, running, background_mode, audio_available, display,
                   audio_initialized, cleanups, run_result, exit_code, stop_tick,
                   tick_raised>>
    /\ UNCHANGED sessionVars
    /\ UNCHANGED chartVars
    /\ UNCHANGED configVars
    /\ UNCHANGED twin
    /\ UNCHANGED playVars
    /\ UNCHANGED laneVars

\* "while self.running" is false: the loop ends and the finally clause follows
LoopExit ==
    /\ run_pc = "loop_test"
    /\ ~running
    /\ run_pc' = "cleanup"
    /\ UNCHANGED <<ticks, running, background_mode, audio_available, display,
                   audio_initialized, cleanups, run_result, exit_code, stop_tick,
                   tick_raised>>
    /\ UNCHANGED sessionVars
    /\ UNCHANGED chartVars
    /\ UNCHANGED configVars
    /\ UNCHANGED twin
    /\ UNCHANGED playVars
    /\ UNCHANGED laneVars

\* self.handle_events(), for the queue q of this iteration
HandleEvents ==
    /\ run_pc = "handle_events"
    /\ \E q \in EventQueues :
          /\ running' = RunningAfter(running, q)
          /\ background_mode' = ModeAfter(background_mode, q)
          /\ stop_tick' = IF stop_tick = 0 /\ StopRequested(q)
                          THEN ticks + 1 ELSE stop_tick
    /\ run_pc' = "update"
    /\ UNCHANGED <<ticks, audio_available, display, audio_initialized, cleanups,
                   run_result, exit_code, tick_raised>>
    /\ UNCHANGED sessionVars
    /\ UNCHANGED chartVars
    /\ UNCHANGED configVars
    /\ UNCHANGED twin
    /\ UNCHANGED playVars
    /\ UNCHANGED laneVars

\* self.update(dt): an exception of performance_monitor.update leaves the
\* loop through "except Exception", which logs it, and then the finally clause
RunUpdate ==
    /\ run_pc = "update"
    /\ \E d \in RunDts, keys \in TwinKeys, lane \in RunSpawns, step \in ClockSteps :
          LET s1 == SessionUpdate(Session, nextId, lane, d, keys, step)
              spawned == AfterSpawn(Game, nextId, lane)
              moved == UpdateNotes(spawned, d)
              played == HandleInput(moved, keys)
          IN  /\ SetGame(s1.game)
              /\ SetMonitor(s1.monitor)
              /\ wall_clock' = s1.clock
              /\ missed_now' = IF s1.monitor.raised THEN {}
                               ELSE NewlyMissed(spawned.notes, moved.notes)
              /\ hit_now' = IF s1.monitor.raised THEN {}
                            ELSE NewlyHit(moved.notes, played.notes)
              /\ pruned_now' = IF s1.monitor.raised THEN {}
                               ELSE Removed(played.notes, s1.game.notes)
              /\ appended' = Append(appended, d)
              /\ transitions' =
                    IF s1.monitor.quality_level # quality_level
                    THEN Append(transitions,
                                [from |-> quality_level, to |-> s1.monitor.quality_level,
                                 at |-> s1.clock, len |-> Len(s1.monitor.frame_times),
                                 sum |-> SumSeq(s1.monitor.frame_times)])
                    ELSE transitions
              /\ nextId' = IF lane = NoSpawn \/ s1.monitor.raised
                           THEN nextId ELSE nextId + 1
              /\ tick_raised' = s1.monitor.raised
              /\ run_pc' = IF s1.monitor.raised THEN "cleanup" ELSE "draw"
    /\ updates' = updates + 1
    /\ ticks' = ticks + 1
    /\ UNCHANGED <<pc, lane_i, budget, elapsed>>
    /\ UNCHANGED <<running, background_mode, audio_available, display,
                   audio_initialized, cleanups, run_result, exit_code, stop_tick>>
    /\ UNCHANGED chartVars
    /\ UNCHANGED configVars
    /\ UNCHANGED twin
    /\ UNCHANGED playVars
    /\ UNCHANGED laneVars

\* self.draw(): reads the state and changes none of it
RunDraw ==
    /\ run_pc = "draw"
    /\ run_pc' = "loop_test"
    /\ UNCHANGED <<ticks, running, background_mode, audio_available, display,
                   audio_initialized, cleanups, run_result, exit_code, stop_tick,
                   tick_raised>>
    /\ UNCHANGED sessionVars
    /\ UNCHANGED chartVars
    /\ UNCHANGED configVars
    /\ UNCHANGED twin
    /\ UNCHANGED playVars
    /\ UNCHANGED laneVars

\* "finally: self.cleanup()"
RunCleanup ==
    /\ run_pc = "cleanup"
    /\ cleanups' = cleanups + 1
    /\ run_pc' = "run_return"
    /\ UNCHANGED <<ticks, running, background_mode, audio_available, display,
                   audio_initialized, run_result, exit_code, stop_tick, tick_raised>>
    /\ UNCHANGED sessionVars
    /\ UNCHANGED chartVars
    /\ UNCHANGED configVars
    /\ UNCHANGED twin
    /\ UNCHANGED playVars
    /\ UNCHANGED laneVars

\* the "return True" that ends run()
RunReturn ==
    /\ run_pc = "run_return"
    /\ run_result' = "True"
    /\ run_pc' = "run_returned"
    /\ UNCHANGED <<ticks, running, background_mode, audio_available, display,
                   audio_initialized, cleanups, exit_code, stop_tick, tick_raised>>
    /\ UNCHANGED sessionVars
    /\ UNCHANGED chartVars
    /\ UNCHANGED configVars
    /\ UNCHANGED twin
    /\ UNCHANGED playVars
    /\ UNCHANGED laneVars

\* main(): "if success: return 0 else: return 1"
MainReturn ==
    /\ run_pc = "run_returned"
    /\ exit_code = "none"
    /\ exit_code' = IF run_result = "True" THEN "0" ELSE "1"
    /\ run_pc' = "exited"
    /\ UNCHANGED <<ticks, running, background_mode, audio_available, display,
                   audio_initialized, cleanups, run_result, stop_tick, tick_raised>>
    /\ UNCHANGED sessionVars
    /\ UNCHANGED chartVars
    /\ UNCHANGED configVars
    /\ UNCHANGED twin
    /\ UNCHANGED playVars
    /\ UNCHANGED laneVars

NextRun ==
    \/ MainCheckRequirements
    \/ MainSetupDisplay
    \/ RunInitDisplay
    \/ RunInitAudio
    \/ LoopIterate
    \/ LoopExit
    \/ HandleEvents
    \/ RunUpdate
    \/ RunDraw
    \/ RunCleanup
    \/ RunReturn
    \/ MainReturn

SpecRun == InitRun /\ [][NextRun]_vars

----------------------------------------------------------------------------
(* C25, C26, C28 *)

\* run() has returned
RunHasReturned == run_result # "none"

\* C25: when the loop was left because a tick raised, what run() returns is
\* not what it returns after a normal exit (True)
TickFailureIsReported ==
    (RunHasReturned /\ tick_raised) => run_result # "True"

\* C26: when the audio backend cannot be initialised (and the display is in
\* order) the program does not end before the loop has run update()
AudioFailureStillTicks ==
    (~audio_available /\ display = "ok" /\ run_pc = "exited") => ticks > 0

\* the statements run() has still to execute, from the one at p on, when
\* self.running is False
StepsLeft(p) ==
    CASE p = "update" -> 5
      [] p = "draw" -> 4
      [] p = "loop_test" -> 3
      [] p = "cleanup" -> 2
      [] p = "run_return" -> 1
      [] OTHER -> 0

\* C28: once handle_events has handled QUIT or the key-down of ESCAPE no
\* further iteration starts and run() returns (it always has a next statement
\* to execute, and each one leaves fewer to execute); when it has returned,
\* update() has not been called again and cleanup has run exactly once
StopEndsTheLoop ==
    /\ [][(stop_tick # 0 /\ run_pc = "loop_test") => run_pc' # "handle_events"]_vars
    /\ [][(stop_tick # 0 /\ ~RunHasReturned) =>
              StepsLeft(run_pc') < StepsLeft(run_pc)]_vars
    /\ []((stop_tick # 0 /\ ~RunHasReturned) => ENABLED NextRun)
    /\ []((stop_tick # 0 /\ RunHasReturned) => (cleanups = 1 /\ ticks = stop_tick))
    /\ [](cleanups <= 1)

\* run() has returned after ESCAPE or QUIT was handled in the second iteration
ReturnedAfterStopInSecondTick ==
    /\ RunHasReturned
    /\ stop_tick = 2
    /\ ~tick_raised
    /\ cleanups = 1

----------------------------------------------------------------------------
(* C27 *)

\* C27: PerformanceMonitor.update completes without a fault for every
\* dt >= 0, a stalled clock (every buffered duration 0) included
UpdateNeverRaises == ~raised

----------------------------------------------------------------------------
(* C29, C30 *)

\* the step is a call of update_notes
UpdateNotesStep == pc = "update_notes" /\ pc' = "input"

\* the step is an iteration of the for loop of handle_input
LaneStep == pc = "input" /\ lane_i' = lane_i + 1

\* C29: combo is the number of notes hit since the latest miss (since the
\* session started when there was none): it is the number of notes hit so far
\* when the explored part of the session starts, no miss having occurred; a
\* call of update_notes that misses a note sets it to 0, a call of
\* hit_note_in_lane that hits a note adds 1, and nothing else changes it
ComboCountsHitsSinceMiss ==
    /\ (combo = Cardinality({i \in 1 .. Len(notes) : notes[i].hit})
        /\ \A i \in 1 .. Len(notes) : ~notes[i].missed)
    /\ [][combo' = IF UpdateNotesStep /\ missed_now' # {} THEN 0
                   ELSE IF LaneStep THEN combo + Cardinality(hit_now')
                   ELSE combo]_vars

\* a note was hit after a miss had reset the combo: the combo is 1 again
HitAfterMiss ==
    /\ pc = "input"
    /\ hit_now # {}
    /\ combo = 1
    /\ \E i \in 1 .. Len(notes) : notes[i].missed

\* C30: a hit adds exactly 100 * step(c) to the score, c being the combo after
\* its increment (9 -> 10 adds 200, 29 -> 30 adds 400)
HitAddsStepOfNewCombo ==
    [][(LaneStep /\ hit_now' # {}) =>
          /\ combo' = combo + 1
          /\ score' = score + 100 * StepOfCombo(combo')]_vars

\* a hit has just raised the combo from 29 to 30 and added 400 to the score
\* of 29 hits
ThirtiethHitAdded400 ==
    /\ pc = "input"
    /\ hit_now # {}
    /\ combo = 30
    /\ score = ScoreAfterHits(29) + 400

----------------------------------------------------------------------------
(* choose_lane_musically(current_time, bpm, existing_notes) applied to one  *)
(* note history                                                             *)

(* Bounds of the model *)

\* notes of the histories choose_lane_musically is applied to
MaxHistory == 5
\* note times in ms
HistoryTimes == {500, 1000}
\* current_time in ms: a note of time 1000 is 1.5 s old and a note of time 500
\* is exactly 2 s old, which is no longer recent
CallTimes == {2500}

\* "notes" of generate_chart when it calls choose_lane_musically: every note
\* was stamped with the current_time of its iteration, so the times do not
\* decrease along the list
Histories ==
    UNION {{h \in [1 .. n -> {ChartNote(t, lane) : t \in HistoryTimes, lane \in Lanes}] :
               \A j \in 1 .. (n - 1) : h[j].time <= h[j + 1].time} :
           n \in 0 .. MaxHistory}

\* the list lane_weights when the weights are summed
LaneWeights(t, existing) ==
    [i \in 1 .. NUM_LANES |-> LaneWeight(i - 1, t, existing)]

InitChoose ==
    /\ GameConstructed
    /\ MonitorConstructed
    /\ NoConfig
    /\ NoTwin
    /\ NoRun
    /\ NoPlay
    /\ NoLane
    /\ pc = "choose"
    /\ chart_time \in CallTimes
    /\ chart_notes \in Histories
    /\ chart_input = << >>
    /\ filtered_notes = << >>
    /\ min_gap = DEFAULT_MIN_GAP
    /\ difficulty = "Normal"
    /\ iterations = 0
    /\ analysis = << >>
    /\ chart_raised = "none"

\* lane = self.choose_lane_musically(current_time, bpm, notes), for the draw
\* k of random.uniform(0, total_weight)
ChooseStep ==
    /\ pc = "choose"
    /\ \E k \in LaneDraws : chosen_lane' = ChooseLane(chart_time, chart_notes, k)
    /\ lane_weights' = LaneWeights(chart_time, chart_notes)
    /\ pc' = "chosen"
    /\ UNCHANGED chartVars
    /\ UNCHANGED <<notes, score, combo, combo_multiplier, lane_i, nextId, budget,
                   elapsed, hit_now, missed_now, pruned_now>>
    /\ UNCHANGED monitorVars
    /\ UNCHANGED configVars
    /\ UNCHANGED twin
    /\ UNCHANGED runVars
    /\ UNCHANGED playVars

NextChoose == ChooseStep

SpecChoose == InitChoose /\ [][NextChoose]_vars

----------------------------------------------------------------------------
(* C31 *)

\* positions in the history of the notes less than 2 s old at the call
RecentIdx ==
    {j \in 1 .. Len(chart_notes) : chart_time - chart_notes[j].time < 2000}

\* the last four of them
LastFourIdx ==
    {j \in RecentIdx : Cardinality({m \in RecentIdx : m > j}) < 4}

\* occurrences of lane i among them
Occurrences(i) ==
    Cardinality({j \in LastFourIdx : chart_notes[j].lane = i})

\* lane i is at distance 1 or NUM_LANES - 1 from the lane of the most recent
\* note less than 2 s old
NearMostRecent(i) ==
    /\ RecentIdx # {}
    /\ Abs(i - chart_notes[MaxOf(RecentIdx)].lane) \in {1, NUM_LANES - 1}

\* C31: the weight of every lane is 1 times 0.3 for each occurrence of the
\* lane among the last 4 notes less than 2 s old, times 1.5 when such a note
\* exists and the lane is at distance 1 or NUM_LANES - 1 from the most recent
\* one; all weights are 1 when no note is less than 2 s old.  Weights are in
\* units of 1/20000 and the products are compared cross-multiplied.
WeightsFollowTheRule ==
    (pc = "chosen") =>
        /\ Len(lane_weights) = NUM_LANES
        /\ \A i \in Lanes :
              lane_weights[i + 1] * Pow(10, Occurrences(i)) * 2 =
                  20000 * Pow(3, Occurrences(i)) * (IF NearMostRecent(i) THEN 3 ELSE 2)
        /\ (RecentIdx = {}) => \A i \in Lanes : lane_weights[i + 1] = 20000

\* a call with five notes less than 2 s old, all in lane 0: only four of them
\* count (weight 0.3^4 = 0.0081) and lanes 1 and 3 have weight 1.5
FiveRecentNotesInOneLane ==
    /\ pc = "chosen"
    /\ Cardinality(RecentIdx) = 5
    /\ \A j \in RecentIdx : chart_notes[j].lane = 0
    /\ lane_weights = <<162, 30000, 20000, 30000>>

----------------------------------------------------------------------------
(* C40 *)

\* C40: the lane choose_lane_musically returns is in [0, NUM_LANES); every
\* lane weight is strictly positive, hence so is their sum: the branch for
\* total_weight = 0 is not taken and no lane has probability 0.
LaneInRangeAndWeightsPositive ==
    (pc = "chosen") =>
        /\ chosen_lane \in 0 .. (NUM_LANES - 1)
        /\ \A i \in 1 .. NUM_LANES : lane_weights[i] > 0
        /\ SumSeq(lane_weights) > 0

\* a call after the last four notes used all four lanes, which returned the
\* lane of the most recent note (no lane has its full weight)
EveryLaneRecentlyUsed ==
    /\ pc = "chosen"
    /\ \A i \in Lanes : Occurrences(i) = 1
    /\ \A i \in 1 .. NUM_LANES : lane_weights[i] < 20000
    /\ chosen_lane = chart_notes[Len(chart_notes)].lane

----------------------------------------------------------------------------
(* C39 *)

\* C39: remove_duplicate_notes applied to the list it returned, with the same
\* min_gap, returns that list again (the same notes in the same order).
DedupIsIdempotent ==
    (pc = "deduped_again") => (filtered_notes = chart_input)

\* a second call, on a returned list of two or more notes whose first two are
\* in the same lane
SecondCallOnSameLaneNotes ==
    /\ pc = "deduped_again"
    /\ min_gap = DEFAULT_MIN_GAP
    /\ Len(filtered_notes) >= 2
    /\ chart_input[1].lane = chart_input[2].lane

----------------------------------------------------------------------------
(* generate_chart(analysis, difficulty) for summaries with a positive tempo *)

\* the short summary at half the default tempo (one beat per second)
SlowAnalysis == [ShortAnalysis EXCEPT !.bpm = DEFAULT_BPM \div 2]

\* the short summary at 120 and at 60 beats per minute, and without energy
\* levels
TempoAnalyses ==
    {ShortAnalysis, SlowAnalysis, [ShortAnalysis EXCEPT !.energy_levels = << >>]}

InitGenerateTempo ==
    /\ GameConstructed
    /\ MonitorConstructed
    /\ NoConfig
    /\ NoTwin
    /\ NoRun
    /\ NoPlay
    /\ NoLane
    /\ pc = "generate"
    /\ analysis \in TempoAnalyses
    /\ difficulty \in Difficulties
    /\ chart_time = 0
    /\ chart_input = << >>
    /\ chart_notes = << >>
    /\ filtered_notes = << >>
    /\ min_gap = DEFAULT_MIN_GAP
    /\ iterations = 0
    /\ chart_raised = "none"

SpecGenerateTempo == InitGenerateTempo /\ [][NextGenerateAny]_vars

----------------------------------------------------------------------------
(* C38 *)

\* 0.35 * 60 / bpm, in ms
MinAdvance(a) == (35 * BeatInterval(a)) \div 100

\* an iteration of the while loop of generate_chart has run to its end
IterationStep == pc = "generate" /\ iterations' = iterations + 1

\* the largest number of iterations of steps of at least MinAdvance(a) that
\* start below the duration: ceil(duration / MinAdvance(a))
MaxIterations(a) ==
    (a.duration * 1000 + MinAdvance(a) - 1) \div MinAdvance(a)

----------------------------------------------------------------------------
(* Sessions observed from tick to tick: the game part of update(dt) as one   *)
(* step.  performance_monitor.update, update_particles and the background   *)
(* do not touch the notes, the score or the combo, and a call that an        *)
(* exception leaves before "Spawn notes" changes none of them.               *)

(* Bounds of the model *)

\* notes spawned during the explored part of a session
MaxPlaySpawn == 2
\* combo reached (by consecutive hits) before the explored part
PlayStartCombos == {0, 9}
\* pygame.key.get_pressed(): the lanes whose key is down (no key, or the
\* keys of lanes 0 and 1 held)
PlayKeys == {{}, {0, 1}}
\* what "Spawn notes" does in a tick: nothing, or a note in lane 0 or 1
PlaySpawns == {NoSpawn, 0, 1}

\* the game when handle_input has returned, before "Remove old notes", with
\* handle_input called before update_notes
Played_InputFirst(g, id, lane, d, keys) ==
    UpdateNotes(HandleInput(AfterSpawn(g, id, lane), keys), d)

\* the game when handle_input has returned, before "Remove old notes"
Played(g, id, lane, d, keys) ==
    HandleInput(UpdateNotes(AfterSpawn(g, id, lane), d), keys)

\* ids of the notes hit_note_in_lane can hit when handle_input starts
InWindow(g) ==
    {g.notes[i].id : i \in {j \in 1 .. Len(g.notes) :
                                /\ Active(g.notes[j])
                                /\ Abs(g.notes[j].y - HIT_ZONE_Y) <= HIT_TOLERANCE}}

RECURSIVE AwardsFrom(_, _, _)
\* the calls of hit_note_in_lane, from index i of lane_keys on, that executed
\* "self.score = max(1, self.score + points)"
AwardsFrom(g, keys, i) ==
    IF i >= NUM_LANES THEN 0
    ELSE LET h == IF i \in keys THEN HitNoteInLane(g, i) ELSE g
         IN  (IF h.score # g.score THEN 1 ELSE 0) + AwardsFrom(h, keys, i + 1)

InitPlay ==
    /\ \E k \in PlayStartCombos :
          /\ notes = Warmup(k).notes
          /\ score = Warmup(k).score
          /\ combo = Warmup(k).combo
          /\ combo_multiplier = Warmup(k).combo_multiplier
          /\ nextId = k + 1
          /\ hittable = 1 .. k
          /\ awards = k
          /\ hit_total = k
    /\ budget = MaxPlaySpawn
    /\ pc = "tick"
    /\ lane_i = 0
    /\ elapsed = 0
    /\ hit_now = {}
    /\ missed_now = {}
    /\ pruned_now = {}
    /\ keys_now = {}
    /\ max_step = 0
    /\ MonitorConstructed
    /\ NoChart
    /\ NoConfig
    /\ NoTwin
    /\ NoRun
    /\ NoLane

\* update(dt) for the frame duration d, the key states keys and the spawn
\* decision lane; hit_now and missed_now are the notes the call turned to hit
\* and to missed, pruned_now the notes it removed
PlayTickOf(d) ==
    /\ pc = "tick"
    /\ \E keys \in PlayKeys, lane \in PlaySpawns :
          LET spawned == AfterSpawn(Game, nextId, lane)
              moved == UpdateNotes(spawned, d)
              played == Played(Game, nextId, lane, d, keys)
          IN  /\ (lane # NoSpawn) => (budget > 0)
              /\ SetGame(Prune(played))
              /\ budget' = IF lane = NoSpawn THEN budget ELSE budget - 1
              /\ nextId' = IF lane = NoSpawn THEN nextId ELSE nextId + 1
              /\ missed_now' = NewlyMissed(spawned.notes, played.notes)
              /\ hit_now' = NewlyHit(spawned.notes, played.notes)
              /\ pruned_now' = Removed(played.notes, Prune(played).notes)
              /\ keys_now' = keys
              /\ max_step' = Max(max_step, NoteSpeed(d))
              /\ hittable' = hittable \cup InWindow(moved)
              /\ awards' = awards + AwardsFrom(moved, keys, 0)
              /\ hit_total' = hit_total + Cardinality(NewlyHit(spawned.notes, played.notes))
    /\ UNCHANGED <<pc, lane_i, elapsed>>
    /\ UNCHANGED monitorVars
    /\ UNCHANGED chartVars
    /\ UNCHANGED configVars
    /\ UNCHANGED twin
    /\ UNCHANGED runVars
    /\ UNCHANGED laneVars

\* a call with dt = 0: the clock did not advance
StalledTick == PlayTickOf(0)

\* a call with dt > 0
AdvancingTick == \E d \in DtSet \ {0} : PlayTickOf(d)

NextPlay ==
    \/ StalledTick
    \/ AdvancingTick

SpecPlay == InitPlay /\ [][NextPlay]_vars

\* a session that starts from the constructed game
InitPlayFresh == InitPlay /\ nextId = 1

\* the loop of run() keeps calling update(), and calls with dt > 0 keep
\* occurring (clock.tick(FPS) waits for the frame time)
SpecPlayLive == InitPlayFresh /\ [][NextPlay]_vars /\ WF_vars(AdvancingTick)

----------------------------------------------------------------------------
(* C33 *)

\* C33: the score awards made so far are as many as the notes turned to Hit
\* so far, and no note was turned to Hit twice: no note is credited more than
\* once, also while a lane key stays down over many ticks.
NoNoteCreditedTwice ==
    /\ awards = hit_total
    /\ \A i \in 1 .. Len(notes) : notes[i].hits <= 1

\* a tick with the keys down in which nothing was hit, while a note of lane 0
\* that an earlier tick of the explored part had hit still lay within
\* tolerance of the hit line (one award, from a fresh session: score 101)
HeldKeyOverHitNote ==
    /\ 0 \in keys_now
    /\ hit_now = {}
    /\ hit_total = 1
    /\ score = 101
    /\ \E i \in 1 .. Len(notes) :
          /\ notes[i].hit
          /\ notes[i].lane = 0
          /\ Dist(notes[i]) <= HIT_TOLERANCE

----------------------------------------------------------------------------
(* C34 *)

\* C34: update_notes runs before handle_input in a tick: a note the tick
\* turned to Missed was not hit in it, and a tick that turned one note to
\* Missed and hit exactly one other note ends with combo = 1 and
\* combo_multiplier = 1.
MissIsResolvedBeforeInput ==
    /\ hit_now \cap missed_now = {}
    /\ \A i \in 1 .. Len(notes) :
          (notes[i].id \in missed_now) => (~notes[i].hit /\ notes[i].hits = 0)
    /\ \A n \in pruned_now : (n.id \in missed_now) => (~n.hit /\ n.hits = 0)
    /\ (missed_now # {} /\ Cardinality(hit_now) = 1) =>
           (combo = 1 /\ combo_multiplier = 1)

\* a tick after a combo of 10 (multiplier 2) in which a note went past the hit
\* window with the key of its lane down and another note was hit
MissAndHitInOneTick ==
    /\ missed_now # {}
    /\ Cardinality(hit_now) = 1
    /\ score = ScoreAfterHits(9) + 100
    /\ \E i \in 1 .. Len(notes) :
          /\ notes[i].id \in missed_now
          /\ notes[i].lane \in keys_now

----------------------------------------------------------------------------
(* C35 *)

\* C35: when update() has returned, every Hit note is within HIT_TOLERANCE of
\* HIT_ZONE_Y, every Missed note is past HIT_ZONE_Y + HIT_TOLERANCE and every
\* Active note is at or before HIT_ZONE_Y + HIT_TOLERANCE.
StatesMatchPositions ==
    \A i \in 1 .. Len(notes) :
        /\ notes[i].hit => Abs(notes[i].y - HIT_ZONE_Y) <= HIT_TOLERANCE
        /\ notes[i].missed => notes[i].y > HIT_ZONE_Y + HIT_TOLERANCE
        /\ (~notes[i].hit /\ ~notes[i].missed) =>
               notes[i].y <= HIT_ZONE_Y + HIT_TOLERANCE

\* the end of a tick with a note hit exactly at HIT_ZONE_Y + HIT_TOLERANCE and
\* a Missed note one step further
HitAtFarEdgeAndMissedBeyond ==
    /\ \E i \in 1 .. Len(notes) :
          notes[i].hit /\ notes[i].y = HIT_ZONE_Y + HIT_TOLERANCE
    /\ \E i \in 1 .. Len(notes) :
          notes[i].missed /\ notes[i].y = HIT_ZONE_Y + HIT_TOLERANCE + NoteSpeed(500)

----------------------------------------------------------------------------
(* C37 *)

\* C37: as long as no tick has moved the notes by more than 2 * HIT_TOLERANCE,
\* every Missed note was Active and within HIT_TOLERANCE of HIT_ZONE_Y when
\* the handle_input call of an earlier tick started.
MissedNoteWasHittable ==
    (max_step <= 2 * HIT_TOLERANCE) =>
        /\ \A i \in 1 .. Len(notes) : notes[i].missed => (notes[i].id \in hittable)
        /\ \A n \in pruned_now : n.missed => (n.id \in hittable)

\* a note that was missed in a session of ticks of 75 pixels in which nothing
\* was hit
MissedAfterSmallSteps ==
    /\ max_step = NoteSpeed(500)
    /\ keys_now = {}
    /\ hit_total \in PlayStartCombos
    /\ \E i \in 1 .. Len(notes) : notes[i].id \in missed_now

----------------------------------------------------------------------------
(* C32 *)

\* C32: every note of the list self.notes is eventually removed from it,
\* whatever its state, when calls of update() with dt > 0 keep occurring.
EveryNoteIsEventuallyRemoved ==
    \A id \in 1 .. MaxPlaySpawn :
        (id \in Ids(notes)) ~> (id \notin Ids(notes))

----------------------------------------------------------------------------
(* C36 *)

\* C36: when handle_input comes to a lane in which no note is Active and
\* within HIT_TOLERANCE of HIT_ZONE_Y, the step leaves the note list (lane,
\* position and state of every note), score, combo and combo_multiplier as
\* they are, whether the key of the lane is down or not.
EmptyPressChangesNothing ==
    [][(/\ pc = "input"
        /\ lane_i < NUM_LANES
        /\ \A i \in 1 .. Len(notes) :
              \/ notes[i].lane # lane_i
              \/ notes[i].hit
              \/ notes[i].missed
              \/ notes[i].y < HIT_ZONE_Y - HIT_TOLERANCE
              \/ notes[i].y > HIT_ZONE_Y + HIT_TOLERANCE)
       => UNCHANGED <<notes, score, combo, combo_multiplier>>]_vars

\* handle_input has passed a lane whose only notes within tolerance were hit
\* before (the key held down over a hit note), with a combo to lose and an
\* Active note of another lane within tolerance still to come
PressedOverHitNote ==
    /\ pc = "input"
    /\ lane_i \in 1 .. NUM_LANES - 1
    /\ hit_now = {}
    /\ combo > 0
    /\ \E i \in 1 .. Len(notes) :
          /\ notes[i].lane = lane_i - 1
          /\ notes[i].hit
          /\ Abs(notes[i].y - HIT_ZONE_Y) <= HIT_TOLERANCE
    /\ \A i \in 1 .. Len(notes) :
          (notes[i].lane = lane_i - 1) => (notes[i].hit \/ notes[i].missed)
    /\ \E i \in 1 .. Len(notes) :
          /\ notes[i].lane >= lane_i
          /\ Active(notes[i])
          /\ Abs(notes[i].y - HIT_ZONE_Y) <= HIT_TOLERANCE

=============================================================================
